---- MODULE Spec2Model ----
(***************************************************************************)
(* State-machine model of the CRUD scaffolding of Nest-Common:             *)
(*   - the handlers the Crud decorator generates (CrudHost.query, export,  *)
(*     read, delete, replace, update) in common/decorators/crud.decorator, *)
(*   - the entity-fetch interceptor (CrudEntityInterceptor.intercept),     *)
(*   - the data-access service (BaseService) over a repository.            *)
(* The repository is a sequence of entity records in the data layer's      *)
(* natural order; a FilterQuery is a function from field names to the      *)
(* value the field must equal.                                             *)
(***************************************************************************)
EXTENDS Integers, Sequences, FiniteSets, TLC

VARIABLES
    db,         \* the repository: a sequence of entities, in query order
    options,    \* the CrudOptions given to Crud(options); fixed after Init
    pc,         \* per export request: where generateData stands
    filter,     \* per export request: the `filter` local of export()
    page,       \* per export request: the `page` local of export()
    aborted,    \* per export request: the `aborted` local of export()
    items,      \* per export request: the batch generateData holds
    idx,        \* per export request: position of the for-of loop in items
    out,        \* per export request: what generateData has yielded so far
    fetches,    \* per export request: the FindOptions of every service.query call
    returned,   \* per export request: the number of rows each query returned
    closed,     \* per export request: the request's 'close' event has fired
    h,          \* the :id request in flight in read/delete/replace/update
    svcCalls,   \* the service.delete / service.update calls of that request
    events,     \* what the event emitter has emitted, in order
    nreq,       \* number of :id requests started so far
    icp,        \* the request in flight in CrudEntityInterceptor.intercept
    resp,       \* the response of the last CrudHost.query call
    meta,       \* the data layer's metadata of the entity class
    related,    \* the related repository: the keys of the related entities
    svc,        \* the BaseService / BaseRelatedService call in flight
    host,       \* the controller class Crud(options) is applied to
    qf,         \* the last QueryFilterUtil call: its arguments and result
    dto,        \* the classes DtoFactory has defined and their metadata
    json,       \* generateJson of export request 1: its position and its chunks
    writes,     \* the writes other requests have made to the repository
    cr          \* the request in flight in CrudHost.create / import

exportVars == <<pc, filter, page, aborted, items, idx, out, fetches, returned, closed>>
crudVars == <<h, svcCalls, events, nreq>>
otherVars == <<icp, resp>>
moreVars == <<meta, related, svc, host, qf, dto>>
lateVars == <<json, writes, cr>>
vars == <<db, options, exportVars, crudVars, otherVars, moreVars, lateVars>>

----------------------------------------------------------------------------
(* Bounds of the model.                                                    *)

\* Largest number of entities in the repository.
MaxRecords == 5

\* `const batchSize = 500` in export(); the model runs the same loop with a
\* small batch so that full batches, a short batch and an exact multiple of
\* the batch size all occur within MaxRecords entities.
batchSize == 2

\* Largest number of entities in the repository of the list runs.
MaxQueryRecords == 3

\* The export requests that may be in flight at the same time.
Exports == {1, 2}
Owners == {"a", "b"}
Keys == 1..MaxRecords

----------------------------------------------------------------------------
(* Filters and the repository.                                             *)

\* The empty FilterQuery, `{}`.
EmptyFilter == <<>>

\* Object spread / Object.assign: the keys of `over` win.
Assign(base, over) == over @@ base

\* An entity satisfies a FilterQuery when every key of the filter equals the
\* entity's field.
Matches(e, where) == \A k \in DOMAIN where : e[k] = where[k]

\* The entities of a sequence that satisfy a predicate, in order.
RECURSIVE SelectWhere(_, _)
SelectWhere(s, where) ==
    IF s = <<>> THEN <<>>
    ELSE IF Matches(Head(s), where)
         THEN <<Head(s)>> \o SelectWhere(Tail(s), where)
         ELSE SelectWhere(Tail(s), where)

\* s with x put before the first element whose id is larger.
RECURSIVE InsertById(_, _)
InsertById(s, x) ==
    IF s = <<>> THEN <<x>>
    ELSE IF x.id < Head(s).id THEN <<x>> \o s
    ELSE <<Head(s)>> \o InsertById(Tail(s), x)

RECURSIVE SortById(_)
SortById(s) == IF s = <<>> THEN <<>> ELSE InsertById(SortById(Tail(s)), Head(s))

Reverse(s) == [i \in 1..Len(s) |-> s[Len(s) + 1 - i]]

\* FindOptions.orderBy built from options.operations.query.sort (lines
\* 184-193), here a sort on the id field or none.
OrderBy(s, order) ==
    IF order = "ASC" THEN SortById(s)
    ELSE IF order = "DESC" THEN Reverse(SortById(s))
    ELSE s

\* Mutant of Find: the limit is ignored.
FindMutNoLimit(where, offset, limit, order) ==
    LET all == OrderBy(SelectWhere(db, where), order)
    IN  SubSeq(all, offset + 1, Len(all))

\* Mutant of Find: the window starts one row late.
FindMutOffByOne(where, offset, limit, order) ==
    LET all == OrderBy(SelectWhere(db, where), order)
        hi  == IF offset + limit + 1 < Len(all) THEN offset + limit + 1 ELSE Len(all)
    IN  SubSeq(all, offset + 2, hi)

\* repository.find(where, {offset, limit, orderBy}): `limit` matching rows
\* from `offset` on, in the given order (the repository's own without
\* orderBy).
Find(where, offset, limit, order) ==
    LET all == OrderBy(SelectWhere(db, where), order)
        hi  == IF offset + limit < Len(all) THEN offset + limit ELSE Len(all)
    IN  SubSeq(all, offset + 1, hi)

\* repository.count(where)
Count(where) == Len(SelectWhere(db, where))

\* BaseService.query: repository.findAndCount(where, options) -> [rows, count]
ServiceQuery(where, offset, limit, order) ==
    [rows |-> Find(where, offset, limit, order), count |-> Count(where)]

\* BaseService.findOne: the first matching entity, or null.
Null == [null |-> TRUE]
FindOne(where) ==
    LET all == SelectWhere(db, where)
    IN  IF all = <<>> THEN Null ELSE Head(all)

\* class-transformer's instanceToPlain: a plain object with the entity's own
\* properties.
instanceToPlain(item) == [k \in DOMAIN item |-> item[k]]

----------------------------------------------------------------------------
(* CrudOptions.filter: the scoping filter function.                        *)

\* What options.filter(req, params) returns: nothing (no filter configured),
\* a FilterQuery, or a Promise of a FilterQuery.
\* The FilterQuery values are those of FilterValues.
FilterResults(FilterValues) ==
    {[kind |-> "none", val |-> EmptyFilter]}
    \cup [kind : {"sync", "promise"}, val : FilterValues]

\* `options?.filter?.(req, params)` without await, then `... ?? {}`: a Promise
\* is an object without own enumerable keys, so a data layer or a spread that
\* reads its keys finds none.
UnawaitedFilter(f) == IF f.kind = "sync" THEN f.val ELSE EmptyFilter

\* `await options?.filter?.(req, params)`, then `?? {}`.
AwaitedFilter(f) == f.val

----------------------------------------------------------------------------
(* The primary key and the :id route parameter.                            *)
(* An entity's id field holds a key of Keys.  With a numeric key the key   *)
(* is the number itself, with a string key the entity's id is the decimal  *)
(* text of the key, with an ObjectId key it is the ObjectId whose 24-digit *)
(* hex text ends in that number.                                           *)

\* The texts a client sends as :id.
Hex1 == "000000000000000000000001"
RawIds == {"1", "2", "01", " ", "abc", Hex1}

\* A parsed primary key: a key value, NaN, or an exception thrown while
\* parsing.  A key value nobody has is 0.
KeyVal(n) == [kind |-> "key", n |-> n]
NaN == [kind |-> "NaN", n |-> 0]
Thrown == [kind |-> "throw", n |-> 0]

\* JavaScript's Number(text): white space is trimmed, leading zeros are
\* allowed, the empty text is 0, anything else that is no numeral is NaN.
JsNumber(text) ==
    CASE text = "1"  -> KeyVal(1)
      [] text = "2"  -> KeyVal(2)
      [] text = "01" -> KeyVal(1)
      [] text = Hex1 -> KeyVal(1)
      [] text = " "  -> KeyVal(0)
      [] text = ""   -> KeyVal(0)
      [] OTHER       -> NaN

\* new MongoObjectId(text): 24 hex digits, or the constructor throws.
JsObjectId(text) ==
    IF text = Hex1 THEN KeyVal(1) ELSE Thrown

\* A string key is the text itself: it names the entity whose id it spells.
JsString(text) ==
    CASE text = "1" -> KeyVal(1)
      [] text = "2" -> KeyVal(2)
      [] OTHER      -> KeyVal(0)

\* parseId of Crud(), crud.decorator.ts lines 71-79.
parseId(text) ==
    IF options.pkType = "ObjectId" THEN JsObjectId(text)
    ELSE IF options.pkType = "Number" THEN JsNumber(text)
    ELSE JsString(text)

----------------------------------------------------------------------------
(* CrudHost.read, delete, replace and update, and the BaseService calls    *)
(* they make.  h.pc:                                                       *)
(*   "idle"       no request                                               *)
(*   "findOne"    the handler awaits service.findOne                       *)
(*   "svcFindOne" service.delete / service.update awaits its own findOne   *)
(*   "svcWrite"   the service awaits nativeDelete / flush                  *)
(*   "done"       the request has its outcome                              *)
(* h.outcome: "ok", "notFound" (NotFoundException), "badRequest"           *)
(* (BadRequestException), "error" (any other exception: a 500).            *)

\* Largest number of :id requests in one run.
MaxRequests == 2

Ops == {"read", "delete", "replace", "update"}
Bodies == {[val |-> 1]}

NoRequest ==
    [op |-> "none", raw |-> "", body |-> EmptyFilter, pc |-> "idle", pk |-> KeyVal(0),
     where |-> EmptyFilter, result |-> Null, outcome |-> "none", db0 |-> <<>>]

\* What the data layer answers to findOne when the key is NaN is not defined
\* by this repository: no row, or an error of the driver.
DataError == [error |-> TRUE]
DataFindOne(where, pk) ==
    IF pk = NaN THEN {Null, DataError} ELSE {FindOne(where)}

\* The handler up to its first await: the scoping filter is taken without
\* await, the id is parsed, service.findOne is called with
\* {...filter ?? {}, [primaryKey]: parseId(id)}.  An exception of parseId
\* leaves the handler as it is.
HandlerStart(op, raw, body) ==
    /\ h.pc \in {"idle", "done"}
    /\ nreq < MaxRequests
    /\ nreq' = nreq + 1
    /\ svcCalls' = <<>>
    /\ LET pk  == parseId(raw)
           req == [NoRequest EXCEPT !.op = op, !.raw = raw, !.body = body,
                                    !.pk = pk, !.db0 = db]
       IN  IF pk = Thrown
           THEN h' = [req EXCEPT !.pc = "done", !.outcome = "error"]
           ELSE h' = [req EXCEPT
                    !.pc = "findOne",
                    !.where = Assign(UnawaitedFilter(options.filter), [id |-> pk.n])]
    /\ UNCHANGED <<db, options, moreVars, exportVars, events, otherVars, lateVars>>

\* Mutant of NotFound: the handler goes on with whatever findOne returned.
NotFoundMutNever(result) == FALSE

\* `if (!result) throw new NotFoundException(...)`
NotFound(result) == result = Null

\* update(): the own keys of the body whose value is not undefined; the
\* bodies of the model hold no undefined value.
toUpdateBody(body) == [k \in DOMAIN body |-> body[k]]

\* service.findOne resolves in the handler.
HandlerFindOne ==
    /\ h.pc = "findOne"
    /\ \E res \in DataFindOne(h.where, h.pk) :
        IF res = DataError
        THEN /\ h' = [h EXCEPT !.pc = "done", !.outcome = "error"]
             /\ UNCHANGED svcCalls
        ELSE IF NotFound(res)
        THEN /\ h' = [h EXCEPT !.pc = "done", !.outcome = "notFound"]
             /\ UNCHANGED svcCalls
        ELSE IF h.op = "read"
        THEN /\ h' = [h EXCEPT !.pc = "done", !.outcome = "ok", !.result = res]
             /\ UNCHANGED svcCalls
        ELSE \* self.service.delete / update({[primaryKey]: result[primaryKey]}, ...)
             /\ h' = [h EXCEPT !.pc = "svcFindOne", !.result = res,
                               !.where = [id |-> IF res = Null THEN 0 ELSE res.id]]
             /\ svcCalls' = Append(svcCalls,
                    [fn   |-> IF h.op = "delete" THEN "delete" ELSE "update",
                     data |-> IF h.op = "update" THEN toUpdateBody(h.body)
                              ELSE IF h.op = "replace" THEN h.body ELSE EmptyFilter])
    /\ UNCHANGED <<db, options, moreVars, exportVars, events, nreq, otherVars, lateVars>>

\* BaseService.delete / update: `await this.findOne(where)` resolves.
\* delete emits '<slug>.deleted' with what it read and calls nativeDelete;
\* update assigns the data to what it read (a TypeError when that is null)
\* and calls flush.
SvcFindOne ==
    /\ h.pc = "svcFindOne"
    /\ LET read == FindOne(h.where)
       IN  IF h.op = "delete"
           THEN /\ events' = IF options.emitter
                             THEN Append(events, [name |-> "deleted", entity |-> read])
                             ELSE events
                /\ h' = [h EXCEPT !.pc = "svcWrite", !.result = read]
           ELSE IF read = Null
           THEN /\ h' = [h EXCEPT !.pc = "done", !.outcome = "error", !.result = Null]
                /\ UNCHANGED events
           ELSE /\ h' = [h EXCEPT !.pc = "svcWrite",
                                  !.result = Assign(read, svcCalls[Len(svcCalls)].data)]
                /\ UNCHANGED events
    /\ UNCHANGED <<db, options, moreVars, exportVars, svcCalls, nreq, otherVars, lateVars>>

\* The rows of d that do not satisfy where, in order.
RECURSIVE Without(_, _)
Without(d, where) ==
    IF d = <<>> THEN <<>>
    ELSE IF Matches(Head(d), where) THEN Without(Tail(d), where)
    ELSE <<Head(d)>> \o Without(Tail(d), where)

\* BaseService.delete / update: nativeDelete or flush resolves, or rejects
\* (the data layer refuses the write).  When it resolves, update emits
\* '<slug>.updated' and returns the entity.
SvcWrite ==
    /\ h.pc = "svcWrite"
    /\ \E resolved \in BOOLEAN :
       IF ~resolved
       THEN /\ h' = [h EXCEPT !.pc = "done", !.outcome = "error"]
            /\ UNCHANGED <<db, events>>
       ELSE IF h.op = "delete"
       THEN /\ db' = Without(db, h.where)
            /\ h' = [h EXCEPT !.pc = "done", !.outcome = "ok"]
            /\ UNCHANGED events
       ELSE /\ db' = [i \in DOMAIN db |-> IF db[i].id = h.result.id THEN h.result ELSE db[i]]
            /\ h' = [h EXCEPT !.pc = "done", !.outcome = "ok"]
            /\ events' = IF options.emitter
                         THEN Append(events, [name |-> "updated", entity |-> h.result])
                         ELSE events
    /\ UNCHANGED <<options, moreVars, exportVars, svcCalls, nreq, otherVars, lateVars>>

\* The interceptor's request and the list response of the other runs.
NoIntercept ==
    [pc |-> "idle", raw |-> "", parsed |-> KeyVal(0), where |-> EmptyFilter,
     outcome |-> "none", attached |-> Null, fetched |-> 0, handled |-> FALSE]
NoResponse == [kind |-> "none"]

\* The service call, the decoration, the filter parser and the DTO factory
\* while none of them runs.
NoMeta ==
    [relations |-> <<>>, decorated |-> FALSE, properties |-> <<>>, strategy |-> "none",
     exposed |-> <<>>, excluded |-> <<>>]
NoCall ==
    [pc |-> "idle", fn |-> "none", data0 |-> <<>>, data |-> <<>>, where |-> EmptyFilter,
     i |-> 1, entities |-> <<>>, outcome |-> "none", result |-> <<>>, db0 |-> <<>>]
NoHost ==
    [pc |-> "idle", path |-> "", operations |-> <<>>, dtos |-> FALSE, crudMeta |-> FALSE,
     handlers |-> {}, proto |-> "Object", dtoDerivations |-> 0, nameMaps |-> 0,
     requests |-> 0]
NoParse == [pc |-> "idle", filterConfig |-> <<>>, query |-> <<>>, where |-> <<>>, params |-> <<>>]
NoDto ==
    [pc |-> "idle", options0 |-> <<>>, options |-> <<>>, classes |-> 0, parents |-> <<>>,
     storage |-> <<>>, calls |-> <<>>]
\* generateJson before its first pull, no concurrent write, no create or
\* import request.
NoJson == [isCsv |-> FALSE, pc |-> "start", first |-> TRUE, received |-> 0, body |-> <<>>]
NoCreate ==
    [pc |-> "idle", fn |-> "none", body0 |-> <<>>, body |-> <<>>, i |-> 1,
     persist |-> [kind |-> "none", val |-> <<>>],
     defaultValues |-> [kind |-> "none", val |-> <<>>],
     persisted |-> <<>>]
LateAtRest ==
    /\ json = NoJson
    /\ writes = <<>>
    /\ cr = NoCreate

OthersAtRest ==
    /\ LateAtRest
    /\ meta = NoMeta
    /\ related = {}
    /\ svc = NoCall
    /\ host = NoHost
    /\ qf = NoParse
    /\ dto = NoDto

\* Repositories of the :id runs: entities with increasing ids.
CrudKeys == {1, 2}
CrudDbs ==
    UNION {[1..n -> {[id |-> i, owner |-> o, val |-> 0] : i \in CrudKeys, o \in Owners}] :
           n \in 0..Cardinality(CrudKeys)}

CrudOptions ==
    [filter : FilterResults({[owner |-> "a"], [id |-> 1]}),
     pkType : {"String", "Number", "ObjectId"},
     metaProp : {TRUE}, pagination : {TRUE}, emitter : {TRUE}, sort : {"none"}]

Init ==
    /\ db \in {d \in CrudDbs : \A i \in DOMAIN d : \A j \in DOMAIN d : i < j => d[i].id < d[j].id}
    /\ options \in CrudOptions
    /\ pc = [e \in Exports |-> "idle"]
    /\ filter = [e \in Exports |-> EmptyFilter]
    /\ page = [e \in Exports |-> 0]
    /\ aborted = [e \in Exports |-> FALSE]
    /\ items = [e \in Exports |-> <<>>]
    /\ idx = [e \in Exports |-> 0]
    /\ out = [e \in Exports |-> <<>>]
    /\ fetches = [e \in Exports |-> <<>>]
    /\ returned = [e \in Exports |-> <<>>]
    /\ closed = [e \in Exports |-> FALSE]
    /\ h = NoRequest
    /\ svcCalls = <<>>
    /\ events = <<>>
    /\ nreq = 0
    /\ icp = NoIntercept
    /\ resp = NoResponse
    /\ OthersAtRest

Next ==
    \/ \E op \in Ops, raw \in RawIds, body \in Bodies : HandlerStart(op, raw, body)
    \/ HandlerFindOne
    \/ SvcFindOne
    \/ SvcWrite

\* The :id handlers, one request after the other.
Spec == Init /\ [][Next]_vars

\* Another request deletes the entity with key k while the request of the
\* run is in flight: its service.delete has read the entity and its
\* nativeDelete resolves.
OtherDelete(k) ==
    /\ h.pc \in {"findOne", "svcFindOne", "svcWrite"}
    /\ \E i \in DOMAIN db : db[i].id = k
    /\ db' = Without(db, [id |-> k])
    /\ writes' = Append(writes, [fn |-> "delete", id |-> k, during |-> h.pc, req |-> nreq])
    /\ UNCHANGED <<options, moreVars, exportVars, crudVars, otherVars, json, cr>>

NextRace ==
    \/ \E op \in Ops, raw \in RawIds, body \in Bodies : HandlerStart(op, raw, body)
    \/ HandlerFindOne
    \/ SvcFindOne
    \/ SvcWrite
    \/ \E k \in CrudKeys : OtherDelete(k)

\* The :id handlers while other requests delete entities.
SpecRace == Init /\ [][NextRace]_vars

----------------------------------------------------------------------------
(* CrudHost.query: the list handler.                                       *)

\* Largest page and limit a client sends in the runs.
MaxPage == 3
MaxLimit == 3

\* `if (!limit) limit = 100;`
DefaultLimit == 100

\* A query parameter: <<>> when the client did not send it, <<n>> otherwise.
PageArgs == {<<>>} \cup {<<n>> : n \in 0..MaxPage}
LimitArgs == {<<>>} \cup {<<n>> : n \in 0..MaxLimit}

\* `if (!x) x = d;`: undefined and 0 are falsy.
OrDefault(arg, d) == IF arg = <<>> \/ arg[1] = 0 THEN d ELSE arg[1]

\* Mutant of Ceil: the quotient is rounded down.
CeilMutFloor(a, b) == a \div b

\* Math.ceil(a / b) for a >= 0, b > 0.
Ceil(a, b) == IF a % b = 0 THEN a \div b ELSE (a \div b) + 1

\* The handler: one await of the scoping filter, one of the service.  A run
\* holds one list request.
QueryList(pageArg, limitArg) ==
    /\ resp.kind = "none"
    /\ LET where == AwaitedFilter(options.filter)
           limit == OrDefault(limitArg, DefaultLimit)
           page_ == OrDefault(pageArg, 0)
       IN  IF options.pagination
           THEN LET q == ServiceQuery(where, page_ * limit, limit, options.sort)
                IN  resp' = [kind |-> "page", pageArg |-> pageArg, limitArg |-> limitArg,
                             data |-> q.rows, total |-> q.count, page |-> page_,
                             limit |-> limit, totalPages |-> Ceil(q.count, limit)]
           ELSE resp' = [kind |-> "list", pageArg |-> pageArg, limitArg |-> limitArg,
                         data |-> OrderBy(SelectWhere(db, where), options.sort)]
    /\ UNCHANGED <<db, options, moreVars, exportVars, crudVars, icp, lateVars>>

QueryOptions ==
    [filter : FilterResults({[owner |-> "a"]}), pkType : {"Number"},
     metaProp : {TRUE}, pagination : BOOLEAN, emitter : {TRUE},
     sort : {"none", "ASC", "DESC"}]

\* Repositories of the list runs: distinct ids in any order.
QueryDbs ==
    UNION {[1..n -> {[id |-> i, owner |-> o, val |-> 0] : i \in 1..MaxQueryRecords, o \in Owners}] :
           n \in 0..MaxQueryRecords}

InitQuery ==
    /\ db \in {d \in QueryDbs : \A i \in DOMAIN d : \A j \in DOMAIN d : i # j => d[i].id # d[j].id}
    /\ options \in QueryOptions
    /\ pc = [e \in Exports |-> "idle"]
    /\ filter = [e \in Exports |-> EmptyFilter]
    /\ page = [e \in Exports |-> 0]
    /\ aborted = [e \in Exports |-> FALSE]
    /\ items = [e \in Exports |-> <<>>]
    /\ idx = [e \in Exports |-> 0]
    /\ out = [e \in Exports |-> <<>>]
    /\ fetches = [e \in Exports |-> <<>>]
    /\ returned = [e \in Exports |-> <<>>]
    /\ closed = [e \in Exports |-> FALSE]
    /\ h = NoRequest
    /\ svcCalls = <<>>
    /\ events = <<>>
    /\ nreq = 0
    /\ icp = NoIntercept
    /\ resp = NoResponse
    /\ OthersAtRest

NextQuery == \E pageArg \in PageArgs, limitArg \in LimitArgs : QueryList(pageArg, limitArg)

\* List requests over a repository nobody writes to.
SpecQuery == InitQuery /\ [][NextQuery]_vars

----------------------------------------------------------------------------
(* CrudEntityInterceptor.intercept.  icp.pc:                               *)
(*   "idle"    no request                                                  *)
(*   "filter"  awaits options.filter(req, params)                          *)
(*   "findOne" awaits repo.findOne                                         *)
(*   "done"    an exception was thrown or next.handle() was called         *)
(* icp.attached is req[FETCHED_ENTITY_KEY]; icp.handled says next.handle() *)
(* was called; icp.fetched counts the repo.findOne calls.                  *)

BadRequest == [kind |-> "badRequest", n |-> 0]

\* Mutant of InterceptParse: the numeric id is not tested with isNaN.
InterceptParseMutNoNaNTest(text) ==
    IF options.pkType = "ObjectId"
    THEN IF JsObjectId(text) = Thrown THEN BadRequest ELSE JsObjectId(text)
    ELSE IF options.pkType = "Number" THEN JsNumber(text)
    ELSE JsString(text)

\* Lines 57-90: the id is parsed by the type of the primary-key property,
\* read from prop.type when the metadata has the property (lines 62-74) and
\* from design:type when it has not (lines 75-90).  An ObjectId text that
\* makes the constructor throw and a numeric text that gives NaN are a
\* BadRequestException; any other type leaves the text as it is.
InterceptParse(text) ==
    IF options.metaProp
    THEN IF options.pkType = "ObjectId"
         THEN IF JsObjectId(text) = Thrown THEN BadRequest ELSE JsObjectId(text)
         ELSE IF options.pkType = "Number"
         THEN IF JsNumber(text) = NaN THEN BadRequest ELSE JsNumber(text)
         ELSE JsString(text)
    ELSE IF options.pkType = "ObjectId"
         THEN IF JsObjectId(text) = Thrown THEN BadRequest ELSE JsObjectId(text)
         ELSE IF options.pkType = "Number"
         THEN IF JsNumber(text) = NaN THEN BadRequest ELSE JsNumber(text)
         ELSE JsString(text)

\* Mutant of InterceptWhere: the scoping filter is left out.
InterceptWhereMutNoFilter(f, key) == [id |-> key]

\* Lines 100-103: {...filter, [primaryKey]: parsedId}
InterceptWhere(f, key) == Assign(f, [id |-> key])

\* Lines 35-96, up to the first await.  Without an id in the route
\* parameters the handler runs at once.
InterceptStart(raw) ==
    /\ icp.pc = "idle"
    /\ LET parsed == InterceptParse(raw)
           req    == [NoIntercept EXCEPT !.raw = raw]
       IN  IF raw = ""
           THEN icp' = [req EXCEPT !.pc = "done", !.outcome = "handled", !.handled = TRUE]
           ELSE IF parsed = BadRequest
           THEN icp' = [req EXCEPT !.pc = "done", !.outcome = "badRequest"]
           ELSE IF options.filter.kind # "none"
           THEN icp' = [req EXCEPT !.pc = "filter", !.parsed = parsed]
           ELSE icp' = [req EXCEPT !.pc = "findOne", !.parsed = parsed,
                                   !.where = InterceptWhere(EmptyFilter, parsed.n),
                                   !.fetched = 1]
    /\ UNCHANGED <<db, options, moreVars, exportVars, crudVars, resp, lateVars>>

\* `filter = await options.filter(req, params) || {}` resolves and
\* repo.findOne is called.
InterceptFilter ==
    /\ icp.pc = "filter"
    /\ icp' = [icp EXCEPT !.pc = "findOne",
                          !.where = InterceptWhere(AwaitedFilter(options.filter), icp.parsed.n),
                          !.fetched = 1]
    /\ UNCHANGED <<db, options, moreVars, exportVars, crudVars, resp, lateVars>>

\* repo.findOne resolves: NotFoundException, or the entity is attached to
\* the request and next.handle() is called.
InterceptFindOne ==
    /\ icp.pc = "findOne"
    /\ \E entity \in DataFindOne(icp.where, icp.parsed) :
        IF entity = DataError
        THEN icp' = [icp EXCEPT !.pc = "done", !.outcome = "error"]
        ELSE IF entity = Null
        THEN icp' = [icp EXCEPT !.pc = "done", !.outcome = "notFound"]
        ELSE icp' = [icp EXCEPT !.pc = "done", !.outcome = "handled",
                                !.attached = entity, !.handled = TRUE]
    /\ UNCHANGED <<db, options, moreVars, exportVars, crudVars, resp, lateVars>>

InterceptOptions ==
    [filter : FilterResults({[owner |-> "a"], [id |-> 1]}),
     pkType : {"String", "Number", "ObjectId"},
     metaProp : BOOLEAN, pagination : {TRUE}, emitter : {TRUE}, sort : {"none"}]

InitIntercept ==
    /\ db \in {d \in CrudDbs : \A i \in DOMAIN d : \A j \in DOMAIN d : i < j => d[i].id < d[j].id}
    /\ options \in InterceptOptions
    /\ pc = [e \in Exports |-> "idle"]
    /\ filter = [e \in Exports |-> EmptyFilter]
    /\ page = [e \in Exports |-> 0]
    /\ aborted = [e \in Exports |-> FALSE]
    /\ items = [e \in Exports |-> <<>>]
    /\ idx = [e \in Exports |-> 0]
    /\ out = [e \in Exports |-> <<>>]
    /\ fetches = [e \in Exports |-> <<>>]
    /\ returned = [e \in Exports |-> <<>>]
    /\ closed = [e \in Exports |-> FALSE]
    /\ h = NoRequest
    /\ svcCalls = <<>>
    /\ events = <<>>
    /\ nreq = 0
    /\ icp = NoIntercept
    /\ resp = NoResponse
    /\ OthersAtRest

NextIntercept ==
    \/ \E raw \in RawIds \cup {""} : InterceptStart(raw)
    \/ InterceptFilter
    \/ InterceptFindOne

\* One request through the interceptor.
SpecIntercept == InitIntercept /\ [][NextIntercept]_vars

----------------------------------------------------------------------------
(* CrudHost.export and its generator generateData.                         *)
(* pc: "idle"     no export request yet                                    *)
(*     "start"    export() has run; generateData not yet pulled            *)
(*     "fetching" generateData awaits service.query                        *)
(*     "yielded"  generateData is suspended at `yield`, item idx handed out*)
(*     "done"     generateData has returned                                *)

\* Entities of the repository of the export runs: ids 1..n in order.
ExportDbs ==
    UNION {{[i \in 1..n |-> [id |-> i, owner |-> o[i], val |-> 0]] : o \in [1..n -> Owners]} :
           n \in 0..MaxRecords}

\* The caller's scope in the export runs: the entities owned by "a".
ExportOptions ==
    [filter : FilterResults({[owner |-> "a"]}), pkType : {"Number"},
     metaProp : {TRUE}, pagination : {TRUE}, emitter : {TRUE}, sort : {"none"}]

InitExport ==
    /\ db \in ExportDbs
    /\ options \in ExportOptions
    /\ pc = [e \in Exports |-> "idle"]
    /\ filter = [e \in Exports |-> EmptyFilter]
    /\ page = [e \in Exports |-> 0]
    /\ aborted = [e \in Exports |-> FALSE]
    /\ items = [e \in Exports |-> <<>>]
    /\ idx = [e \in Exports |-> 0]
    /\ out = [e \in Exports |-> <<>>]
    /\ fetches = [e \in Exports |-> <<>>]
    /\ returned = [e \in Exports |-> <<>>]
    /\ closed = [e \in Exports |-> FALSE]
    /\ h = NoRequest
    /\ svcCalls = <<>>
    /\ events = <<>>
    /\ nreq = 0
    /\ icp = NoIntercept
    /\ resp = NoResponse
    /\ OthersAtRest

\* export(), lines 245-255: the filter is computed without await, the page
\* counter and the aborted flag are fresh locals, the 'close' listener is
\* registered.
ExportStart(e) ==
    /\ pc[e] = "idle"
    /\ pc' = [pc EXCEPT ![e] = "start"]
    /\ filter' = [filter EXCEPT ![e] = UnawaitedFilter(options.filter)]
    /\ page' = [page EXCEPT ![e] = 0]
    /\ aborted' = [aborted EXCEPT ![e] = FALSE]
    /\ UNCHANGED <<db, options, moreVars, crudVars, otherVars, items, idx, out, fetches, returned, closed, lateVars>>

\* Mutant of CloseListener: the flag is never set.
CloseListenerMutNoop(a, e) == a

\* Mutant of CloseListener: one flag shared by all export requests.
CloseListenerMutShared(a, e) == [x \in DOMAIN a |-> TRUE]

\* req.on('close', () => { aborted = true; })
CloseListener(a, e) == [a EXCEPT ![e] = TRUE]

\* The client of export request e disconnects: 'close' fires once.
Disconnect(e) ==
    /\ pc[e] # "idle"
    /\ ~closed[e]
    /\ closed' = [closed EXCEPT ![e] = TRUE]
    /\ aborted' = CloseListener(aborted, e)
    /\ UNCHANGED <<db, options, moreVars, crudVars, otherVars, pc, filter, page, items, idx, out, fetches, returned, lateVars>>

\* Mutant of ShortBatch: only an empty batch ends the loop.
ShortBatchMutNever(n) == FALSE

\* `if (items.length < batchSize) break;`
ShortBatch(n) == n < batchSize

\* The head of `while (!aborted)` with page counter p: leave the loop, or
\* call service.query(filter, {offset: page * batchSize, limit: batchSize}).
LoopHead(e, p) ==
    IF aborted[e]
    THEN /\ pc' = [pc EXCEPT ![e] = "done"]
         /\ UNCHANGED fetches
    ELSE /\ pc' = [pc EXCEPT ![e] = "fetching"]
         /\ fetches' = [fetches EXCEPT
                ![e] = Append(@, [offset |-> p * batchSize, limit |-> batchSize])]

\* The consumer pulls the next item (generator.next()).
Pull(e) ==
    /\ pc[e] \in {"start", "yielded"}
    /\ IF pc[e] = "start"
       THEN /\ LoopHead(e, page[e])
            /\ UNCHANGED <<page, idx, out>>
       ELSE IF idx[e] < Len(items[e])
       THEN \* next turn of `for (const item of items)`
            /\ idx' = [idx EXCEPT ![e] = @ + 1]
            /\ out' = [out EXCEPT ![e] = Append(@, instanceToPlain(items[e][idx[e] + 1]))]
            /\ UNCHANGED <<pc, page, fetches>>
       ELSE IF ShortBatch(Len(items[e]))
       THEN /\ pc' = [pc EXCEPT ![e] = "done"]
            /\ UNCHANGED <<page, idx, out, fetches>>
       ELSE /\ page' = [page EXCEPT ![e] = @ + 1]
            /\ LoopHead(e, page[e] + 1)
            /\ UNCHANGED <<idx, out>>
    /\ UNCHANGED <<db, options, moreVars, crudVars, otherVars, filter, aborted, items, returned, closed, lateVars>>

\* service.query resolves: `if (items.length === 0) break;`, else the first
\* item is yielded to the pull that is waiting.
FetchEnd(e) ==
    /\ pc[e] = "fetching"
    /\ LET opt  == fetches[e][Len(fetches[e])]
           rows == ServiceQuery(filter[e], opt.offset, opt.limit, "none").rows
       IN  /\ items' = [items EXCEPT ![e] = rows]
           /\ returned' = [returned EXCEPT ![e] = Append(@, Len(rows))]
           /\ IF Len(rows) = 0
              THEN /\ pc' = [pc EXCEPT ![e] = "done"]
                   /\ UNCHANGED <<idx, out>>
              ELSE /\ pc' = [pc EXCEPT ![e] = "yielded"]
                   /\ idx' = [idx EXCEPT ![e] = 1]
                   /\ out' = [out EXCEPT ![e] = Append(@, instanceToPlain(rows[1]))]
    /\ UNCHANGED <<db, options, moreVars, crudVars, otherVars, filter, page, aborted, fetches, closed, lateVars>>

NextExport ==
    \E e \in Exports :
        \/ ExportStart(e)
        \/ Pull(e)
        \/ FetchEnd(e)
        \/ Disconnect(e)

\* Export requests over a repository nobody else writes to.
SpecExport == InitExport /\ [][NextExport]_vars

\* One export request, with a client that keeps reading while it is
\* connected and a data layer that answers every query.
NextExportOne ==
    \/ ExportStart(1)
    \/ Pull(1)
    \/ FetchEnd(1)
    \/ Disconnect(1)

SpecExportFair ==
    /\ InitExport
    /\ [][NextExportOne]_vars
    /\ WF_vars(FetchEnd(1))
    /\ WF_vars(Pull(1) /\ ~closed[1])

----------------------------------------------------------------------------
(* The export while other requests write to the repository.               *)

\* Largest number of writes of other requests during one export.
MaxWrites == 1

\* generateData is suspended at a yield: between two of its batch fetches,
\* or after the last.
BetweenFetches(e) == pc[e] = "yielded"

\* Another request's service.delete removes the entity with key k between
\* two fetches of export request 1.
ExportOtherDelete(k) ==
    /\ BetweenFetches(1)
    /\ Len(writes) < MaxWrites
    /\ \E i \in DOMAIN db : db[i].id = k
    /\ db' = Without(db, [id |-> k])
    /\ writes' = Append(writes, [fn |-> "delete", id |-> k])
    /\ UNCHANGED <<options, moreVars, exportVars, crudVars, otherVars, json, cr>>

\* Another request's service.create stores a new entity of the caller
\* between two fetches of export request 1; the data layer's order puts it
\* before or after the entities it holds.
ExportOtherCreate(front) ==
    /\ BetweenFetches(1)
    /\ Len(writes) < MaxWrites
    /\ LET entity == [id |-> MaxRecords + Len(writes) + 1, owner |-> "a", val |-> 0]
       IN  /\ db' = IF front THEN <<entity>> \o db ELSE Append(db, entity)
           /\ writes' = Append(writes, [fn |-> "create", id |-> entity.id])
    /\ UNCHANGED <<options, moreVars, exportVars, crudVars, otherVars, json, cr>>

NextExportRace ==
    \/ ExportStart(1)
    \/ Pull(1)
    \/ FetchEnd(1)
    \/ Disconnect(1)
    \/ \E k \in Keys : ExportOtherDelete(k)
    \/ \E front \in BOOLEAN : ExportOtherCreate(front)

\* One export request while other requests create and delete entities.
SpecExportRace == InitExport /\ [][NextExportRace]_vars

----------------------------------------------------------------------------
(* generateJson, the generator export() hands to Readable.from when the    *)
(* request does not accept text/csv; the stream pulls it, and it pulls     *)
(* generateData.  json.pc:                                                 *)
(*   "start"    not yet pulled                                             *)
(*   "open"     suspended at `yield '['`                                   *)
(*   "awaiting" the for-await awaits generateData's next item              *)
(*   "comma"    suspended at `yield ','`                                   *)
(*   "item"     suspended at `yield JSON.stringify(item)`                  *)
(*   "close"    suspended at `yield ']'`                                   *)
(*   "done"     returned                                                   *)
(* json.received counts the items the for-await has taken from             *)
(* generateData, json.body holds the chunks yielded so far.                *)

\* A chunk of the body: one of the texts '[', ',' and ']', or the JSON text
\* of an item.
Text(t) == [kind |-> "text", text |-> t]
JsonStringify(item) == [kind |-> "value", of |-> item]

\* Mutant of Separator: a comma before every item.
SeparatorMutAlways(first) == <<Text(",")>>

\* `if (!first) yield ',';`
Separator(first) == IF first THEN <<>> ELSE <<Text(",")>>

\* `req.headers['accept'] === 'text/csv'`
AcceptHeaders == {"undefined", "text/csv", "application/json", "text/csv, */*"}
IsCsv(accept) == accept = "text/csv"

\* The stream calls generateJson.next() while the generator is suspended at
\* a yield or not yet started; the generator runs to its next yield or
\* await.
JsonPull ==
    /\ pc[1] # "idle"
    /\ ~json.isCsv
    /\ json.pc \in {"start", "open", "comma", "item", "close"}
    /\ json' = CASE json.pc = "start" ->
                    [json EXCEPT !.pc = "open", !.body = Append(@, Text("["))]
               [] json.pc = "open" ->
                    [json EXCEPT !.pc = "awaiting", !.first = TRUE]
               [] json.pc = "comma" ->
                    [json EXCEPT !.pc = "item",
                                 !.body = Append(@, JsonStringify(out[1][json.received]))]
               [] json.pc = "item" ->
                    [json EXCEPT !.pc = "awaiting", !.first = FALSE]
               [] json.pc = "close" ->
                    [json EXCEPT !.pc = "done"]
    /\ UNCHANGED <<db, options, exportVars, crudVars, otherVars, moreVars, writes, cr>>

\* generateData.next() is due: the CSV transform pulls generateData itself,
\* generateJson pulls it when its for-await waits for an item that
\* generateData has not yet yielded.
NextDue ==
    \/ json.isCsv
    \/ json.pc = "awaiting" /\ Len(out[1]) = json.received

\* The for-await receives what generateData.next() resolved to: an item,
\* which is yielded after a comma unless it is the first, or the end, after
\* which ']' is yielded.
JsonReceive ==
    /\ json.pc = "awaiting"
    /\ \/ /\ Len(out[1]) > json.received
          /\ LET sep == Separator(json.first)
             IN  json' = [json EXCEPT
                    !.received = @ + 1,
                    !.pc = IF sep = <<>> THEN "item" ELSE "comma",
                    !.body = IF sep = <<>>
                             THEN Append(@, JsonStringify(out[1][json.received + 1]))
                             ELSE @ \o sep]
       \/ /\ Len(out[1]) = json.received
          /\ pc[1] = "done"
          /\ json' = [json EXCEPT !.pc = "close", !.body = Append(@, Text("]"))]
    /\ UNCHANGED <<db, options, exportVars, crudVars, otherVars, moreVars, writes, cr>>

InitExportJson ==
    /\ db \in ExportDbs
    /\ options \in ExportOptions
    /\ json \in {[NoJson EXCEPT !.isCsv = IsCsv(a)] : a \in AcceptHeaders}
    /\ writes = <<>>
    /\ cr = NoCreate
    /\ pc = [e \in Exports |-> "idle"]
    /\ filter = [e \in Exports |-> EmptyFilter]
    /\ page = [e \in Exports |-> 0]
    /\ aborted = [e \in Exports |-> FALSE]
    /\ items = [e \in Exports |-> <<>>]
    /\ idx = [e \in Exports |-> 0]
    /\ out = [e \in Exports |-> <<>>]
    /\ fetches = [e \in Exports |-> <<>>]
    /\ returned = [e \in Exports |-> <<>>]
    /\ closed = [e \in Exports |-> FALSE]
    /\ h = NoRequest
    /\ svcCalls = <<>>
    /\ events = <<>>
    /\ nreq = 0
    /\ icp = NoIntercept
    /\ resp = NoResponse
    /\ meta = NoMeta
    /\ related = {}
    /\ svc = NoCall
    /\ host = NoHost
    /\ qf = NoParse
    /\ dto = NoDto

NextExportJson ==
    \/ ExportStart(1)
    \/ JsonPull
    \/ NextDue /\ Pull(1)
    \/ FetchEnd(1)
    \/ JsonReceive
    \/ Disconnect(1)

\* One export request and the stream that reads its body.
SpecExportJson == InitExportJson /\ [][NextExportJson]_vars

----------------------------------------------------------------------------
(* BaseService.create / createMany / update, and BaseRelatedService, which *)
(* looks up the referenced related entities before it creates.             *)
(* An entity of these runs has an id, the relation properties `parent` and *)
(* `link`, and a value.  A reference is the key of the entity it points    *)
(* to.  svc.pc:                                                            *)
(*   "idle"      no call                                                   *)
(*   "validate"  createMany / create awaits validateRelatedEntity(data[i]) *)
(*   "findOne"   update awaits its findOne                                 *)
(*   "flush"     the service awaits persist(...).flush() or flush()        *)
(*   "done"      the call has returned (outcome "ok") or thrown            *)
(*               ("notFound": NotFoundException, "error": anything else)   *)

\* Largest number of items of one createMany call.
MaxItems == 2

\* A property the caller left out is undefined; a reference names a key.
Undefined == -1
RefVals == {Undefined, 0, 1, 2}
ServiceItems == [parent : RefVals, link : RefVals]
ServiceInputs == UNION {[1..n -> ServiceItems] : n \in 0..MaxItems}

\* relatedRepository.getEntityName()
RelatedName == "Related"

\* `!val`: undefined and 0 are falsy.
Falsy(val) == val \in {Undefined, 0}

\* BaseRelatedService.validateRelatedEntity(data), from relation p of
\* meta.relations on: the relations to another type, the relations that are
\* neither many-to-one nor one-to-one and the falsy values are passed over;
\* the others are looked up in the related repository and replaced by the
\* entity found.  found = FALSE is the NotFoundException.
RECURSIVE validateRelatedEntity(_, _)
validateRelatedEntity(data, p) ==
    IF p > Len(meta.relations) THEN [found |-> TRUE, data |-> data]
    ELSE LET prop == meta.relations[p]
             val  == data[prop.name]
         IN  IF prop.type # RelatedName THEN validateRelatedEntity(data, p + 1)
             ELSE IF prop.kind \notin {"m:1", "1:1"} THEN validateRelatedEntity(data, p + 1)
             ELSE IF Falsy(val) THEN validateRelatedEntity(data, p + 1)
             ELSE IF val \notin related THEN [found |-> FALSE, data |-> data]
             ELSE validateRelatedEntity([data EXCEPT ![prop.name] = val], p + 1)

\* repository.create(data): a new entity with the data's properties; its id
\* is given by the data layer when it is flushed.
RepositoryCreate(d) == [id |-> Undefined, parent |-> d.parent, link |-> d.link, val |-> 0]

\* The id the data layer gives to the next entity.
RECURSIVE MaxId(_)
MaxId(d) == IF d = <<>> THEN 0
            ELSE IF Head(d).id > MaxId(Tail(d)) THEN Head(d).id ELSE MaxId(Tail(d))

\* The entities of a flush, with their ids.
Persisted(entities, d) == [i \in 1..Len(entities) |-> [entities[i] EXCEPT !.id = MaxId(d) + i]]

\* Mutant of Emit: every event is emitted twice.
EmitMutTwice(evs, name, entity) ==
    Append(Append(evs, [name |-> name, entity |-> entity]), [name |-> name, entity |-> entity])

\* `this.eventEmitter?.emit(name, new CRUDEvent...(entity))`
Emit(evs, name, entity) ==
    IF options.emitter THEN Append(evs, [name |-> name, entity |-> entity]) ELSE evs

\* `for (const entity of entities) this.eventEmitter?.emit(...)`
RECURSIVE EmitAll(_, _, _)
EmitAll(evs, name, entities) ==
    IF entities = <<>> THEN evs
    ELSE EmitAll(Emit(evs, name, Head(entities)), name, Tail(entities))

StartedCall(fn, data, where) ==
    [pc |-> "idle", fn |-> fn, data0 |-> data, data |-> data, where |-> where, i |-> 1,
     entities |-> <<>>, outcome |-> "none", result |-> <<>>, db0 |-> db]

\* BaseRelatedService.create(data) and createMany(data) up to their first
\* await.  create validates its one item, createMany every item in turn;
\* with no item createMany goes on to BaseService.createMany at once.
ServiceCreate(fn, data) ==
    /\ svc.pc = "idle"
    /\ svc' = [StartedCall(fn, data, EmptyFilter) EXCEPT
                  !.pc = IF data = <<>> THEN "flush" ELSE "validate"]
    /\ UNCHANGED <<db, options, exportVars, crudVars, otherVars, meta, related, host, qf, dto, lateVars>>

\* `await this.validateRelatedEntity(item)` resolves or throws.  After the
\* last item BaseService.create / createMany builds the entities with
\* repository.create and awaits persist(...).flush().
ServiceValidate ==
    /\ svc.pc = "validate"
    /\ LET v == validateRelatedEntity(svc.data[svc.i], 1)
           data == [svc.data EXCEPT ![svc.i] = v.data]
       IN  IF ~v.found
           THEN svc' = [svc EXCEPT !.pc = "done", !.outcome = "notFound"]
           ELSE IF svc.i < Len(svc.data)
           THEN svc' = [svc EXCEPT !.data = data, !.i = svc.i + 1]
           ELSE svc' = [svc EXCEPT !.data = data, !.pc = "flush",
                            !.entities = [i \in 1..Len(data) |-> RepositoryCreate(data[i])]]
    /\ UNCHANGED <<db, options, exportVars, crudVars, otherVars, meta, related, host, qf, dto, lateVars>>

\* BaseService.update(where, data) up to its first await.
ServiceUpdate(where, data) ==
    /\ svc.pc = "idle"
    /\ svc' = [StartedCall("update", <<data>>, where) EXCEPT !.pc = "findOne"]
    /\ UNCHANGED <<db, options, exportVars, crudVars, otherVars, meta, related, host, qf, dto, lateVars>>

\* update: `await this.findOne(where)` resolves; Object.assign(result, data)
\* is a TypeError when nothing was found; then flush() is awaited.
ServiceFindOne ==
    /\ svc.pc = "findOne"
    /\ LET read == FindOne(svc.where)
       IN  IF read = Null
           THEN svc' = [svc EXCEPT !.pc = "done", !.outcome = "error"]
           ELSE svc' = [svc EXCEPT !.pc = "flush",
                            !.entities = <<Assign(read, svc.data[1])>>]
    /\ UNCHANGED <<db, options, exportVars, crudVars, otherVars, meta, related, host, qf, dto, lateVars>>

\* The flush resolves or rejects (the data layer refuses the write).  When it
\* resolves the entities are stored, the events are emitted and the call
\* returns the entities (create and update: the entity).
ServiceFlush ==
    /\ svc.pc = "flush"
    /\ \E flushed \in BOOLEAN :
        IF ~flushed
        THEN /\ svc' = [svc EXCEPT !.pc = "done", !.outcome = "error"]
             /\ UNCHANGED <<db, events>>
        ELSE IF svc.fn = "update"
        THEN LET result == svc.entities[1]
             IN  /\ db' = [i \in DOMAIN db |-> IF db[i].id = result.id THEN result ELSE db[i]]
                 /\ events' = Emit(events, "updated", result)
                 /\ svc' = [svc EXCEPT !.pc = "done", !.outcome = "ok", !.result = <<result>>]
        ELSE LET entities == Persisted(svc.entities, db)
             IN  /\ db' = db \o entities
                 /\ events' = EmitAll(events, "created", entities)
                 /\ svc' = [svc EXCEPT !.pc = "done", !.outcome = "ok", !.result = entities]
    /\ UNCHANGED <<options, exportVars, h, svcCalls, nreq, otherVars, meta, related, host, qf, dto, lateVars>>

\* The entity's relations: `parent` is many-to-one to the related type;
\* `link` is of a kind or of a type the validation passes over, or
\* one-to-one to the related type.
ServiceMetas ==
    {[NoMeta EXCEPT !.decorated = TRUE,
              !.relations = <<[name |-> "parent", type |-> RelatedName, kind |-> "m:1"], l>>] :
        l \in {[name |-> "link", type |-> RelatedName, kind |-> "1:1"],
               [name |-> "link", type |-> RelatedName, kind |-> "m:n"],
               [name |-> "link", type |-> "Other", kind |-> "m:1"]}}

ServiceOptions ==
    [filter : FilterResults({}), pkType : {"Number"}, metaProp : {TRUE},
     pagination : {TRUE}, emitter : BOOLEAN, sort : {"none"}]

ServiceDbs == {<<>>, <<[id |-> 1, parent |-> 1, link |-> Undefined, val |-> 0]>>}
RelatedSets == {{}, {1}, {1, 2}}
UpdateData == {[val |-> 1], [parent |-> 2]}

ExportAtRest ==
    /\ pc = [e \in Exports |-> "idle"]
    /\ filter = [e \in Exports |-> EmptyFilter]
    /\ page = [e \in Exports |-> 0]
    /\ aborted = [e \in Exports |-> FALSE]
    /\ items = [e \in Exports |-> <<>>]
    /\ idx = [e \in Exports |-> 0]
    /\ out = [e \in Exports |-> <<>>]
    /\ fetches = [e \in Exports |-> <<>>]
    /\ returned = [e \in Exports |-> <<>>]
    /\ closed = [e \in Exports |-> FALSE]

HandlersAtRest ==
    /\ LateAtRest
    /\ h = NoRequest
    /\ svcCalls = <<>>
    /\ nreq = 0
    /\ icp = NoIntercept
    /\ resp = NoResponse

InitService ==
    /\ db \in ServiceDbs
    /\ options \in ServiceOptions
    /\ meta \in ServiceMetas
    /\ related \in RelatedSets
    /\ svc = NoCall
    /\ events = <<>>
    /\ host = NoHost
    /\ qf = NoParse
    /\ dto = NoDto
    /\ ExportAtRest
    /\ HandlersAtRest

NextService ==
    \/ svc.pc = "idle" /\ \E data \in ServiceInputs : ServiceCreate("createMany", data)
    \/ svc.pc = "idle" /\ \E data \in [{1} -> ServiceItems] : ServiceCreate("create", data)
    \/ ServiceValidate
    \/ \E k \in {1, 2}, data \in UpdateData : ServiceUpdate([id |-> k], data)
    \/ ServiceFindOne
    \/ ServiceFlush

\* One call of the service on a repository nobody else writes to.
SpecService == InitService /\ [][NextService]_vars

----------------------------------------------------------------------------
(* CrudHost.create and CrudHost.import.  cr.persist and cr.defaultValues   *)
(* are what options.persist and options.defaultValues return for the       *)
(* request: nothing (not configured), an object, or a promise of one.      *)
(* cr.body0 is the body the client sent, as a list of items (one item for  *)
(* create), cr.body the same objects as the handler assigns to them.       *)
(* cr.pc:                                                                  *)
(*   "idle"          no request                                            *)
(*   "persist"       awaits options.persist(req, params) for item cr.i     *)
(*   "defaultValues" awaits options.defaultValues(req, params)             *)
(*   "service"       calls service.create / createMany with the body       *)

\* The items a client sends, and what the two functions return.
CreateItems == [parent : {Undefined, 2}, link : {Undefined, 1}]
CreateBodies == UNION {[1..n -> CreateItems] : n \in 0..MaxItems}
PersistResults == FilterResults({[parent |-> 1], [parent |-> 1, link |-> 2]})
DefaultValuesResults == FilterResults({[parent |-> 2], [link |-> 1]})

\* Mutant of Overlay: the persist values are assigned last.
OverlayMutPersistLast(item, persist, defaultValues) ==
    Assign(Assign(item, defaultValues), persist)

\* `Object.assign(item, persist); Object.assign(item, defaultValues);`
Overlay(item, persist, defaultValues) ==
    Assign(Assign(item, persist), defaultValues)

\* The handler up to its first await: create has its body, import the
\* first item of its body; without an item import calls the service at
\* once.
CrudCreateStart(fn, body) ==
    /\ cr.pc = "idle"
    /\ cr' = [cr EXCEPT !.fn = fn, !.body0 = body, !.body = body, !.i = 1,
                        !.pc = IF body = <<>> THEN "service" ELSE "persist"]
    /\ UNCHANGED <<db, options, exportVars, crudVars, otherVars, moreVars, json, writes>>

\* `await options.persist?.(req, params) ?? {}` resolves.
CrudCreatePersist ==
    /\ cr.pc = "persist"
    /\ cr' = [cr EXCEPT !.pc = "defaultValues", !.persisted = AwaitedFilter(cr.persist)]
    /\ UNCHANGED <<db, options, exportVars, crudVars, otherVars, moreVars, json, writes>>

\* `await options.defaultValues?.(req, params) ?? {}` resolves and the two
\* are assigned to the item; import goes on with its next item.
CrudCreateDefaultValues ==
    /\ cr.pc = "defaultValues"
    /\ LET item == Overlay(cr.body[cr.i], cr.persisted, AwaitedFilter(cr.defaultValues))
       IN  cr' = [cr EXCEPT !.body[cr.i] = item,
                           !.i = IF cr.i < Len(cr.body) THEN cr.i + 1 ELSE cr.i,
                           !.pc = IF cr.i < Len(cr.body) THEN "persist" ELSE "service"]
    /\ UNCHANGED <<db, options, exportVars, crudVars, otherVars, moreVars, json, writes>>

InitCreate ==
    /\ db \in ServiceDbs
    /\ options \in [filter : FilterResults({}), pkType : {"Number"}, metaProp : {TRUE},
                    pagination : {TRUE}, emitter : {TRUE}, sort : {"none"}]
    /\ meta \in ServiceMetas
    /\ related \in {{1}, {1, 2}}
    /\ cr \in {[NoCreate EXCEPT !.persist = p, !.defaultValues = d] :
                p \in PersistResults, d \in DefaultValuesResults}
    /\ json = NoJson
    /\ writes = <<>>
    /\ svc = NoCall
    /\ events = <<>>
    /\ host = NoHost
    /\ qf = NoParse
    /\ dto = NoDto
    /\ h = NoRequest
    /\ svcCalls = <<>>
    /\ nreq = 0
    /\ icp = NoIntercept
    /\ resp = NoResponse
    /\ ExportAtRest

\* `self.service.createMany(body)` of import and `self.service.create(body)`
\* of create, then the service.
NextCreate ==
    \/ cr.pc = "idle" /\ \E body \in CreateBodies : CrudCreateStart("import", body)
    \/ cr.pc = "idle" /\ \E body \in [{1} -> CreateItems] : CrudCreateStart("create", body)
    \/ CrudCreatePersist
    \/ CrudCreateDefaultValues
    \/ cr.pc = "service" /\ cr.fn = "import" /\ ServiceCreate("createMany", cr.body)
    \/ cr.pc = "service" /\ cr.fn = "create" /\ ServiceCreate("create", cr.body)
    \/ ServiceValidate
    \/ ServiceFlush

\* One create or import request.
SpecCreate == InitCreate /\ [][NextCreate]_vars

----------------------------------------------------------------------------
(* Crud(options) and the class decorator it returns.  host.pc:             *)
(*   "idle"      the controller class is defined, Crud not yet called      *)
(*   "crud"      Crud(options) has run and returned the decorator          *)
(*   "thrown"    the decorator has thrown: the class definition failed     *)
(*   "injected"  the decorator has returned: CrudHost is in the class's    *)
(*               prototype chain and requests are served                   *)

\* Largest number of requests served in one run.
MaxHostRequests == 1

\* The handlers class CrudHost declares.
OperationNames ==
    {"import", "create", "query", "export", "read", "delete", "replace", "update"}

\* An entry of options.operations: left out, false, an options object, or
\* true.
Entries == {"undefined", "false", "object", "true"}

\* Reflect.getMetadata('path', target): undefined when the class has no
\* routing metadata, else the path given to the routing decorator.
NoPath == "undefined"
Paths == {NoPath, "", "items"}

\* Mutant of MissingPath: the decorator never throws.
MissingPathMutNever(path) == FALSE

\* `!path`: undefined and the empty path are falsy.
MissingPath(path) == path \in {NoPath, ""}

\* The `delete CrudHost.prototype.<operation>` statements: create, update,
\* read and query are removed when their entry is false; import, export,
\* delete and replace are removed unless their entry is true.
RemoveOperations(handlers, operations) ==
    LET h1 == IF operations["create"] = "false" THEN handlers \ {"create"} ELSE handlers
        h2 == IF operations["update"] = "false" THEN h1 \ {"update"} ELSE h1
        h3 == IF operations["read"] = "false" THEN h2 \ {"read"} ELSE h2
        h4 == IF operations["query"] = "false" THEN h3 \ {"query"} ELSE h3
        h5 == IF operations["import"] # "true" THEN h4 \ {"import"} ELSE h4
        h6 == IF operations["export"] # "true" THEN h5 \ {"export"} ELSE h5
        h7 == IF operations["delete"] # "true" THEN h6 \ {"delete"} ELSE h6
        h8 == IF operations["replace"] # "true" THEN h7 \ {"replace"} ELSE h7
    IN  h8

\* A controller class before Crud is called: its own prototype chain, no
\* CRUD metadata, no handler.
ClassDefined(path, operations) ==
    [pc |-> "idle", path |-> path, operations |-> operations, dtos |-> FALSE,
     crudMeta |-> FALSE, handlers |-> {}, proto |-> "Object",
     dtoDerivations |-> 0, nameMaps |-> 0, requests |-> 0]

\* Crud(options): DtoFactory.createDtos(options) derives the DTO classes
\* the options lack and stores them in the options, the primary key and its
\* type are read from the metadata, and the decorator is returned.
CrudCall ==
    /\ host.pc = "idle"
    /\ host' = [host EXCEPT !.pc = "crud", !.dtos = TRUE,
                    !.dtoDerivations = host.dtoDerivations + 1]
    /\ UNCHANGED <<db, options, exportVars, crudVars, otherVars, meta, related, svc, qf, dto, lateVars>>

\* The decorator applied to the class: it throws when the class has no
\* path; else it defines the CRUD_OPTIONS_METADATA of the class, declares
\* CrudHost, removes the operations that are off and puts CrudHost.prototype
\* between the class's prototype and its parent.
Decorate ==
    /\ host.pc = "crud"
    /\ IF MissingPath(host.path)
       THEN host' = [host EXCEPT !.pc = "thrown"]
       ELSE host' = [host EXCEPT !.pc = "injected", !.crudMeta = TRUE,
                         !.handlers = RemoveOperations(OperationNames, host.operations),
                         !.proto = "CrudHost"]
    /\ UNCHANGED <<db, options, exportVars, crudVars, otherVars, meta, related, svc, qf, dto, lateVars>>

\* A request served by handler op of the class.  When the application's
\* code for the request translates query parameters with
\* QueryFilterUtil.parseQueryFilters, that call builds the exposed-name
\* maps with getExposedNameMap.
HostRequest(op, parses) ==
    /\ host.pc = "injected"
    /\ op \in host.handlers
    /\ host.requests < MaxHostRequests
    /\ host' = [host EXCEPT !.requests = host.requests + 1,
                    !.nameMaps = IF parses THEN host.nameMaps + 1 ELSE host.nameMaps]
    /\ UNCHANGED <<db, options, exportVars, crudVars, otherVars, meta, related, svc, qf, dto, lateVars>>

InitHost ==
    /\ host \in {ClassDefined(path, operations) :
                    path \in Paths, operations \in [OperationNames -> Entries]}
    /\ db = <<>>
    /\ options \in [filter : FilterResults({}), pkType : {"Number"}, metaProp : {TRUE},
                    pagination : {TRUE}, emitter : {TRUE}, sort : {"none"}]
    /\ events = <<>>
    /\ meta = NoMeta
    /\ related = {}
    /\ svc = NoCall
    /\ qf = NoParse
    /\ dto = NoDto
    /\ ExportAtRest
    /\ HandlersAtRest

NextHost ==
    \/ CrudCall
    \/ Decorate
    \/ host.pc = "injected" /\ \E op \in OperationNames, parses \in BOOLEAN : HostRequest(op, parses)

\* The definition of one controller class and the requests it serves.
SpecHost == InitHost /\ [][NextHost]_vars

----------------------------------------------------------------------------
(* QueryFilterUtil: getExposedNameMap, getSwaggerQueryParams and           *)
(* parseQueryFilters.  The entity of these runs has one property `f`; the  *)
(* filter configuration has an entry for `f` and may have a custom entry   *)
(* `search`.  A query parameter name is a pair <<name, suffix>>, standing  *)
(* for `name` when the suffix is empty and for `name.suffix` otherwise; a  *)
(* query is a function from the parameter names it holds to their texts.   *)

\* Largest number of parameters of one query.
MaxParams == 3

Suffixes == {"", "contains", "min", "max"}
QueryNames == {<<n, s>> : n \in {"f", "x"}, s \in Suffixes} \cup {<<"search", "">>}
QueryTexts == {"1", "true"}
Queries ==
    UNION {[S -> QueryTexts] : S \in {T \in SUBSET QueryNames : Cardinality(T) <= MaxParams}}

\* `${exposedName}.contains` and the like.
ParamName(exposedName, suffix) == <<exposedName, suffix>>

\* The values parseQueryFilters puts into `where`.
StringValue(text) == [kind |-> "string", text |-> text]
BooleanValue(b) == [kind |-> "boolean", b |-> b]
ObjectValue(props) == [kind |-> "object", props |-> props]

\* new Date(text): an invalid date when the text is no date.
JsDate(text) ==
    IF text = "1" THEN [kind |-> "date", valid |-> TRUE, text |-> text]
    ELSE [kind |-> "date", valid |-> FALSE, text |-> ""]

\* `%${text}%`
LikePattern(text) == [kind |-> "template", parts |-> <<"%", text, "%">>]

\* The characters of the texts of the model, and the property names
\* "0", "1", ... of a spread string.
Chars(text) ==
    CASE text = "1"    -> <<"1">>
      [] text = "true" -> <<"t", "r", "u", "e">>
      [] OTHER         -> <<>>
IndexNames == <<"0", "1", "2", "3">>

IsFalsy(v) ==
    \/ v.kind = "key" /\ v.n = 0
    \/ v.kind = "NaN"
    \/ v.kind = "string" /\ v.text = ""
    \/ v.kind = "boolean" /\ ~v.b

\* `{...(where[key] || {})}`: the own enumerable properties of the value:
\* those of an object, the characters of a string, none of a number, a
\* boolean or a Date.
SpreadOrEmpty(where, key) ==
    IF key \notin DOMAIN where THEN <<>>
    ELSE LET v == where[key]
         IN  IF IsFalsy(v) THEN <<>>
             ELSE IF v.kind = "object" THEN v.props
             ELSE IF v.kind = "string"
             THEN LET c == Chars(v.text)
                  IN  [n \in {IndexNames[i] : i \in 1..Len(c)} |->
                          StringValue(c[CHOOSE i \in 1..Len(c) : IndexNames[i] = n])]
             ELSE <<>>

\* getExposedNameMap(entity).toExposed, built from class-transformer's
\* exposed metadata of the entity, from entry i on.
RECURSIVE ToExposedFrom(_, _)
ToExposedFrom(i, map) ==
    IF i > Len(meta.exposed) THEN map
    ELSE LET m == meta.exposed[i]
             exposedName == IF m.name # "" THEN m.name ELSE m.propertyName
         IN  IF m.propertyName # ""
             THEN ToExposedFrom(i + 1, Assign(map, (m.propertyName :> exposedName)))
             ELSE ToExposedFrom(i + 1, map)
getExposedNameMap == ToExposedFrom(1, <<>>)

\* `toExposed.get(key) || key`
ExposedName(toExposed, key) ==
    IF key \in DOMAIN toExposed /\ toExposed[key] # "" THEN toExposed[key] ELSE key

IsString(type) == type = "string"
IsNumber(type) == type = "number"
IsDate(type) == type \in {"date", "Date", "datetime"}
IsBoolean(type) == type = "boolean"

\* The custom filter function of the model's configuration.
CustomFilter(text) == ("title" :> StringValue(text))

\* Mutant of Range: the upper bound is left out.
RangeMutNoMax(query, exposedName, isNumber) ==
    IF ParamName(exposedName, "min") \in DOMAIN query
    THEN ("$gte" :> IF isNumber THEN JsNumber(query[ParamName(exposedName, "min")])
                    ELSE JsDate(query[ParamName(exposedName, "min")]))
    ELSE <<>>

\* The `range` object of lines 155-161.
Range(query, exposedName, isNumber) ==
    LET min == ParamName(exposedName, "min")
        max == ParamName(exposedName, "max")
        r1  == IF min \in DOMAIN query
               THEN ("$gte" :> IF isNumber THEN JsNumber(query[min]) ELSE JsDate(query[min]))
               ELSE <<>>
        r2  == IF max \in DOMAIN query
               THEN Assign(r1, ("$lte" :> IF isNumber THEN JsNumber(query[max])
                                          ELSE JsDate(query[max])))
               ELSE r1
    IN  r2

\* Mutant of Disabled: no entry is passed over.
DisabledMutNever(config) == FALSE

\* `if (!config) continue;`
Disabled(config) == config = "false"

\* One turn of the loop of parseQueryFilters over Object.entries(filterConfig).
ParseEntry(where, query, toExposed, key, config) ==
    IF Disabled(config) THEN where
    ELSE LET exposedName == ExposedName(toExposed, key)
             exact == ParamName(exposedName, "")
         IN  IF config = "function"
             THEN IF exact \in DOMAIN query
                  THEN Assign(where, CustomFilter(query[exact]))
                  ELSE where
             ELSE IF key \notin DOMAIN meta.properties THEN where
             ELSE LET type == meta.properties[key].type
                      w1 == IF exact \notin DOMAIN query THEN where
                            ELSE IF IsNumber(type)
                            THEN Assign(where, (key :> JsNumber(query[exact])))
                            ELSE IF IsBoolean(type)
                            THEN Assign(where, (key :> BooleanValue(query[exact] = "true")))
                            ELSE IF IsDate(type)
                            THEN Assign(where, (key :> JsDate(query[exact])))
                            ELSE Assign(where, (key :> StringValue(query[exact])))
                      contains == ParamName(exposedName, "contains")
                      w2 == IF IsString(type) /\ contains \in DOMAIN query
                            THEN Assign(w1, (key :> ObjectValue(
                                    Assign(SpreadOrEmpty(w1, key),
                                           ("$like" :> LikePattern(query[contains]))))))
                            ELSE w1
                      w3 == IF /\ IsNumber(type) \/ IsDate(type)
                               /\ \/ ParamName(exposedName, "min") \in DOMAIN query
                                  \/ ParamName(exposedName, "max") \in DOMAIN query
                            THEN Assign(w2, (key :> ObjectValue(
                                    Assign(SpreadOrEmpty(w2, key),
                                           Range(query, exposedName, IsNumber(type))))))
                            ELSE w2
                  IN  w3

RECURSIVE ParseFrom(_, _, _, _, _)
ParseFrom(i, where, query, toExposed, filterConfig) ==
    IF i > Len(filterConfig) THEN where
    ELSE ParseFrom(i + 1,
                   ParseEntry(where, query, toExposed, filterConfig[i].key, filterConfig[i].config),
                   query, toExposed, filterConfig)

\* QueryFilterUtil.parseQueryFilters(query, filterConfig, entity)
parseQueryFilters(query, filterConfig) ==
    IF ~meta.decorated THEN <<>>
    ELSE ParseFrom(1, <<>>, query, getExposedNameMap, filterConfig)

\* Mutant of SwaggerSuffixes: no `.max` parameter is documented.
SwaggerSuffixesMutNoMax(type) ==
    IF IsString(type) THEN <<"", "contains">>
    ELSE IF IsNumber(type) \/ IsDate(type) THEN <<"", "min">>
    ELSE <<"">>

\* The parameters getSwaggerQueryParams emits for a property of a type:
\* the exact match, then `.contains` for a string, `.min` and `.max` for a
\* number or a date.
SwaggerSuffixes(type) ==
    IF IsString(type) THEN <<"", "contains">>
    ELSE IF IsNumber(type) \/ IsDate(type) THEN <<"", "min", "max">>
    ELSE <<"">>

ApiQueryOption(name) == [name |-> name, required |-> FALSE, type |-> "string"]

\* One turn of the loop of getSwaggerQueryParams.
SwaggerEntry(params, toExposed, key, config) ==
    IF config = "false" THEN params
    ELSE LET exposedName == ExposedName(toExposed, key)
         IN  IF config = "function"
             THEN Append(params, ApiQueryOption(ParamName(exposedName, "")))
             ELSE IF key \notin DOMAIN meta.properties THEN params
             ELSE LET s == SwaggerSuffixes(meta.properties[key].type)
                  IN  params \o [i \in 1..Len(s) |-> ApiQueryOption(ParamName(exposedName, s[i]))]

RECURSIVE SwaggerFrom(_, _, _, _)
SwaggerFrom(i, params, toExposed, filterConfig) ==
    IF i > Len(filterConfig) THEN params
    ELSE SwaggerFrom(i + 1,
                     SwaggerEntry(params, toExposed, filterConfig[i].key, filterConfig[i].config),
                     toExposed, filterConfig)

\* QueryFilterUtil.getSwaggerQueryParams(entity, filterConfig)
getSwaggerQueryParams(filterConfig) ==
    IF ~meta.decorated THEN <<>>
    ELSE SwaggerFrom(1, <<>>, getExposedNameMap, filterConfig)

\* A call of parseQueryFilters with the configuration of the run.
ParseQueryFilters(query) ==
    /\ qf.pc = "idle"
    /\ qf' = [qf EXCEPT !.pc = "parsed", !.query = query,
                  !.where = parseQueryFilters(query, qf.filterConfig)]
    /\ UNCHANGED <<db, options, exportVars, crudVars, otherVars, meta, related, svc, host, dto, lateVars>>

\* A call of getSwaggerQueryParams with the configuration of the run.
GetSwaggerQueryParams ==
    /\ qf.pc = "idle"
    /\ qf' = [qf EXCEPT !.pc = "documented", !.params = getSwaggerQueryParams(qf.filterConfig)]
    /\ UNCHANGED <<db, options, exportVars, crudVars, otherVars, meta, related, svc, host, dto, lateVars>>

\* The entity's metadata: not an entity of the data layer at all, or an
\* entity whose property `f` is missing or has one of the types; `f` is not
\* exposed, exposed under its own name, or exposed as `x`.
PropertyTypes == {"string", "number", "date", "Date", "boolean", "json"}
FilterMetas ==
    {[NoMeta EXCEPT !.decorated = d, !.properties = p, !.exposed = e] :
        d \in BOOLEAN,
        p \in {<<>>} \cup {("f" :> [type |-> t]) : t \in PropertyTypes},
        e \in {<<>>, <<[propertyName |-> "f", name |-> ""]>>,
               <<[propertyName |-> "f", name |-> "x"]>>}}

\* The filter configurations: an entry for `f` (false, true or a function),
\* alone or followed by the custom entry `search`.
FilterConfigs ==
    {<<[key |-> "f", config |-> c]>> : c \in {"false", "true", "function"}}
    \cup {<<[key |-> "f", config |-> c], [key |-> "search", config |-> "function"]>> :
            c \in {"false", "true", "function"}}

InitFilter ==
    /\ meta \in {m \in FilterMetas : ~m.decorated => (m.properties = <<>> /\ m.exposed = <<>>)}
    /\ qf \in {[NoParse EXCEPT !.filterConfig = c] : c \in FilterConfigs}
    /\ db = <<>>
    /\ options \in [filter : FilterResults({}), pkType : {"Number"}, metaProp : {TRUE},
                    pagination : {TRUE}, emitter : {TRUE}, sort : {"none"}]
    /\ events = <<>>
    /\ related = {}
    /\ svc = NoCall
    /\ host = NoHost
    /\ dto = NoDto
    /\ ExportAtRest
    /\ HandlersAtRest

NextFilter ==
    \/ qf.pc = "idle" /\ \E query \in Queries : ParseQueryFilters(query)
    \/ GetSwaggerQueryParams

\* One call of the filter translator or of the documentation generator.
SpecFilter == InitFilter /\ [][NextFilter]_vars

----------------------------------------------------------------------------
(* DtoFactory.createDtos.  The entity of these runs has the properties `a` *)
(* and `b`.  A class is a number; UserCreateDto and UserUpdateDto are the  *)
(* classes an application may put into the options itself, the classes     *)
(* createDtos defines are numbered from there on.  dto.storage is the list *)
(* of the property decorators applied so far (class-validator's metadata   *)
(* storage and the swagger and class-transformer metadata), dto.parents    *)
(* the superclass of each class createDtos has defined (0: none).  An      *)
(* options object holds the classes in its createDto and updateDto, 0 for  *)
(* undefined.                                                              *)

\* Largest number of createDtos calls in one run.
MaxDtoCalls == 2

PropertyNames == <<"a", "b">>
UserCreateDto == 1
UserUpdateDto == 2

\* The decorators that add validation metadata.
ValidationRules ==
    {"IsString", "IsInt", "IsNumber", "IsBoolean", "IsDate", "IsEnum", "IsArray",
     "IsOptional", "IsNotEmpty"}

\* A decorator applied to a property of a class.
Decorator(target, propertyName, rule, each) ==
    [target |-> target, propertyName |-> propertyName, rule |-> rule, each |-> each]

\* The strategy the exclusion works with: 'excludeAll' unless the class has
\* one (lines 20, 27-30).
TransformerStrategy ==
    IF meta.strategy # "none" THEN meta.strategy ELSE "excludeAll"

\* exposedTransformerProps / excludedTransformerProps: the properties with
\* an Expose / Exclude that is not toPlainOnly (lines 32-44).
TransformerProps(metadatas) ==
    {metadatas[i].propertyName : i \in {j \in DOMAIN metadatas : ~metadatas[j].toPlainOnly}}

\* Mutant of Excluded: an explicitly read-only property is kept.
ExcludedMutKeepsReadOnly(prop) ==
    \/ prop.apiReadOnly
    \/ prop.descriptor # "none"
    \/ prop.primary
    \/ ~prop.persist
    \/ prop.autoincrement
    \/ prop.onCreate
    \/ prop.onUpdate
    \/ prop.version
    \/ IF TransformerStrategy = "excludeAll"
       THEN prop.name \notin TransformerProps(meta.exposed)
       ELSE prop.name \in TransformerProps(meta.excluded)

\* excluded.has(prop.name) after lines 17-106: the swagger readOnly flag, an
\* accessor or a non-writable property on the prototype, the @ReadOnly()
\* mark, then the data layer's metadata and the exposure.
Excluded(prop) ==
    \/ prop.apiReadOnly
    \/ prop.descriptor # "none"
    \/ prop.readOnly
    \/ prop.primary
    \/ ~prop.persist
    \/ prop.autoincrement
    \/ prop.onCreate
    \/ prop.onUpdate
    \/ prop.version
    \/ IF TransformerStrategy = "excludeAll"
       THEN prop.name \notin TransformerProps(meta.exposed)
       ELSE prop.name \in TransformerProps(meta.excluded)

\* The decorators lines 115-204 apply to a property of DefaultCreateDto.
PropertyDecorators(target, prop) ==
    LET isArray == prop.designType = "Array" \/ prop.array
        t1 == IF isArray /\ prop.designType = "Array" THEN "undefined" ELSE prop.designType
        typeToCheck ==
            IF t1 # "undefined" THEN t1
            ELSE CASE prop.type = "string"  -> "String"
                   [] prop.type = "number"  -> "Number"
                   [] prop.type = "boolean" -> "Boolean"
                   [] prop.type = "Date"    -> "Date"
                   [] OTHER                 -> "undefined"
        byType ==
            CASE typeToCheck = "String"  -> <<Decorator(target, prop.name, "IsString", isArray)>>
              [] typeToCheck = "Number"  ->
                    IF prop.integer
                    THEN <<Decorator(target, prop.name, "IsInt", isArray)>>
                    ELSE <<Decorator(target, prop.name, "IsNumber", isArray)>>
              [] typeToCheck = "Boolean" -> <<Decorator(target, prop.name, "IsBoolean", isArray)>>
              [] typeToCheck = "Date"    -> <<Decorator(target, prop.name, "IsDate", isArray),
                                              Decorator(target, prop.name, "Type", FALSE)>>
              [] OTHER                   -> <<>>
        byEnum == IF prop.enum THEN <<Decorator(target, prop.name, "IsEnum", isArray)>> ELSE <<>>
        byArray == IF isArray THEN <<Decorator(target, prop.name, "IsArray", FALSE)>> ELSE <<>>
        byNull == IF prop.nullable
                  THEN <<Decorator(target, prop.name, "IsOptional", isArray),
                         Decorator(target, prop.name, "ApiPropertyOptional", isArray)>>
                  ELSE <<Decorator(target, prop.name, "IsNotEmpty", isArray),
                         Decorator(target, prop.name, "ApiProperty", isArray)>>
    IN  byType \o byEnum \o byArray \o byNull

\* The decorators of DefaultCreateDto, property i of the entity on.
RECURSIVE CreateDecorators(_, _)
CreateDecorators(target, i) ==
    IF ~meta.decorated \/ i > Len(PropertyNames) THEN <<>>
    ELSE IF PropertyNames[i] \notin DOMAIN meta.properties
            \/ Excluded(meta.properties[PropertyNames[i]])
    THEN CreateDecorators(target, i + 1)
    ELSE PropertyDecorators(target, meta.properties[PropertyNames[i]])
            \o CreateDecorators(target, i + 1)

\* storage.getTargetValidationMetadatas(target, ...): the validation
\* metadata of a class and of its superclasses.
Ancestry(parents, c) ==
    {c} \cup (IF c \in DOMAIN parents /\ parents[c] # 0 THEN {parents[c]} ELSE {})
IsValidation(m) == m.rule \in ValidationRules
getTargetValidationMetadatas(storage, parents, c) ==
    SelectSeq(storage, LAMBDA m : m.target \in Ancestry(parents, c) /\ IsValidation(m))

\* The properties of a class that carry swagger metadata.
ModelProperties(storage, c) ==
    {storage[i].propertyName : i \in {j \in DOMAIN storage :
        storage[j].target = c /\ storage[j].rule \in {"ApiProperty", "ApiPropertyOptional"}}}

\* PartialType(classRef) of @nestjs/swagger, defined as class p: the
\* validation metadata of classRef, and every model property optional.
RECURSIVE OptionalProperties(_, _, _)
OptionalProperties(p, names, i) ==
    IF i > Len(PropertyNames) THEN <<>>
    ELSE IF PropertyNames[i] \in names
    THEN <<Decorator(p, PropertyNames[i], "ApiPropertyOptional", FALSE),
           Decorator(p, PropertyNames[i], "IsOptional", FALSE)>>
            \o OptionalProperties(p, names, i + 1)
    ELSE OptionalProperties(p, names, i + 1)

\* Mutant of PartialType: the model properties are not made optional.
PartialTypeMutNotOptional(storage, parents, classRef, p) ==
    LET inherited == getTargetValidationMetadatas(storage, parents, classRef)
    IN  [i \in DOMAIN inherited |-> [inherited[i] EXCEPT !.target = p]]

PartialType(storage, parents, classRef, p) ==
    LET inherited == getTargetValidationMetadatas(storage, parents, classRef)
    IN  [i \in DOMAIN inherited |-> [inherited[i] EXCEPT !.target = p]]
            \o OptionalProperties(p, ModelProperties(storage, classRef), 1)

\* Lines 218-227: every validation metadata of the create DTO is added for
\* DefaultUpdateDto, each followed by IsOptional() on its property.
RECURSIVE UpdateDecorators(_, _, _)
UpdateDecorators(metadatas, u, i) ==
    IF i > Len(metadatas) THEN <<>>
    ELSE <<[metadatas[i] EXCEPT !.target = u],
           Decorator(u, metadatas[i].propertyName, "IsOptional", FALSE)>>
            \o UpdateDecorators(metadatas, u, i + 1)

\* Mutant of NewClass: every call works on the same class.
NewClassMutShared(classes) == UserUpdateDto + 1

\* `class DefaultCreateDto { }` and the like: a class that did not exist.
NewClass(classes) == classes + 1

\* DtoFactory.createDtos(options) in state d: nothing when the options hold
\* both DTOs; else DefaultCreateDto is defined unless the options hold a
\* createDto, and DefaultUpdateDto, a subclass of PartialType(createDto),
\* unless they hold an updateDto.
createDtos(o, d) ==
    IF o.createDto # 0 /\ o.updateDto # 0
    THEN [options |-> o, classes |-> d.classes, parents |-> d.parents, storage |-> d.storage]
    ELSE LET c  == IF o.createDto = 0 THEN NewClass(d.classes) ELSE o.createDto
             n1 == IF o.createDto = 0 THEN c ELSE d.classes
             s1 == IF o.createDto = 0 THEN d.storage \o CreateDecorators(c, 1) ELSE d.storage
             p1 == IF o.createDto = 0 THEN Assign(d.parents, (c :> 0)) ELSE d.parents
         IN  IF o.updateDto # 0
             THEN [options |-> [o EXCEPT !.createDto = c], classes |-> n1,
                   parents |-> p1, storage |-> s1]
             ELSE LET p  == NewClass(n1)
                      u  == NewClass(p)
                      s2 == s1 \o PartialType(s1, p1, c, p)
                      s3 == s2 \o UpdateDecorators(
                                    getTargetValidationMetadatas(s2, p1, c), u, 1)
                  IN  [options |-> [createDto |-> c, updateDto |-> u],
                       classes |-> IF u > n1 THEN u ELSE n1,
                       parents |-> Assign(p1, (p :> 0) @@ (u :> p)),
                       storage |-> s3]

\* The decorators of each property of a class, its superclasses included.
Mapping(storage, parents, c) ==
    LET own == SelectSeq(storage, LAMBDA m : m.target \in Ancestry(parents, c))
    IN  [name \in {own[i].propertyName : i \in DOMAIN own} |->
            LET mine == SelectSeq(own, LAMBDA m : m.propertyName = name)
            IN  [i \in DOMAIN mine |-> [rule |-> mine[i].rule, each |-> mine[i].each]]]

\* A createDtos call: on a new options object that equals the one the run
\* began with (fresh), or on the options object of the call before.
CreateDtosCall(fresh) ==
    /\ Len(dto.calls) < MaxDtoCalls
    /\ \E o \in {IF fresh THEN dto.options0 ELSE dto.options} :
       \E r \in {createDtos(o, dto)} :
           dto' = [dto EXCEPT
                !.pc = "called",
                !.options = r.options,
                !.classes = r.classes,
                !.parents = r.parents,
                !.storage = r.storage,
                !.calls = Append(dto.calls,
                    [fresh |-> fresh, before |-> o, after |-> r.options,
                     createMap |-> Mapping(r.storage, r.parents, r.options.createDto),
                     updateMap |-> Mapping(r.storage, r.parents, r.options.updateDto)])]
    /\ UNCHANGED <<db, options, exportVars, crudVars, otherVars, meta, related, svc, host, qf, lateVars>>

\* An entity property as the data layer's metadata, the reflection metadata
\* and the class describe it.
PlainProperty(name) ==
    [name |-> name, type |-> "string", designType |-> "String", primary |-> FALSE,
     persist |-> TRUE, autoincrement |-> FALSE, onCreate |-> FALSE, onUpdate |-> FALSE,
     version |-> FALSE, readOnly |-> FALSE, apiReadOnly |-> FALSE, descriptor |-> "none",
     nullable |-> FALSE, array |-> FALSE, enum |-> FALSE, integer |-> FALSE]

\* Property `a` in every combination the exclusion looks at.
ExclusionProperties ==
    [name : {"a"}, type : {"string"}, designType : {"String"}, primary : BOOLEAN,
     persist : BOOLEAN, autoincrement : BOOLEAN, onCreate : BOOLEAN, onUpdate : BOOLEAN,
     version : BOOLEAN, readOnly : BOOLEAN, apiReadOnly : BOOLEAN,
     descriptor : {"none", "accessor", "nonWritable"},
     nullable : {FALSE}, array : {FALSE}, enum : {FALSE}, integer : {FALSE}]

\* Property `b` in every combination the validation decorators look at.
TypedProperties ==
    {[PlainProperty("b") EXCEPT !.type = t[1], !.designType = t[2], !.nullable = n,
                                !.array = a, !.enum = e, !.integer = g] :
        t \in {<<"string", "String">>, <<"string", "undefined">>, <<"number", "Number">>,
               <<"number", "undefined">>, <<"boolean", "undefined">>, <<"Date", "Date">>,
               <<"Date", "undefined">>, <<"json", "Object">>, <<"string", "Array">>},
        n \in BOOLEAN, a \in BOOLEAN, e \in BOOLEAN, g \in BOOLEAN}

\* An Expose() / Exclude() on property `a`: none, one, or one that is
\* toPlainOnly.
Mark(name, toPlainOnly) ==
    <<[propertyName |-> name, name |-> "", toPlainOnly |-> toPlainOnly]>>
Marks(name) == {<<>>, Mark(name, FALSE), Mark(name, TRUE)}

DtoMeta(a, b, strategy, exposed, excluded) ==
    [relations |-> <<>>, decorated |-> TRUE, properties |-> ("a" :> a) @@ ("b" :> b),
     strategy |-> strategy, exposed |-> exposed, excluded |-> excluded]

\* The schemas of the runs: no entity metadata at all; `a` varied with `b`
\* plain and exposed; `b` varied with `a` plain and exposed.
ExclusionMetas ==
    {DtoMeta(a, PlainProperty("b"), s, x \o Mark("b", FALSE), y) :
        a \in ExclusionProperties, s \in {"none", "excludeAll", "exposeAll"},
        x \in Marks("a"), y \in Marks("a")}
TypedMetas ==
    {DtoMeta(PlainProperty("a"), b, "none", Mark("a", FALSE) \o Mark("b", FALSE), <<>>) :
        b \in TypedProperties}

\* The decorators of the classes the application wrote itself.
UserStorage ==
    <<Decorator(UserCreateDto, "a", "IsString", FALSE),
      Decorator(UserCreateDto, "a", "ApiProperty", FALSE),
      Decorator(UserUpdateDto, "a", "IsOptional", FALSE)>>

DtoStart(o) ==
    [pc |-> "idle", options0 |-> o, options |-> o, classes |-> UserUpdateDto,
     parents |-> (UserCreateDto :> 0) @@ (UserUpdateDto :> 0), storage |-> UserStorage,
     calls |-> <<>>]

InitDto ==
    /\ \/ /\ meta \in ExclusionMetas
          /\ dto = DtoStart([createDto |-> 0, updateDto |-> 0])
       \/ /\ meta \in TypedMetas \cup {NoMeta}
          /\ dto \in {DtoStart(o) : o \in [createDto : {0, UserCreateDto},
                                           updateDto : {0, UserUpdateDto}]}
    /\ db = <<>>
    /\ options \in [filter : FilterResults({}), pkType : {"Number"}, metaProp : {TRUE},
                    pagination : {TRUE}, emitter : {TRUE}, sort : {"none"}]
    /\ events = <<>>
    /\ related = {}
    /\ svc = NoCall
    /\ host = NoHost
    /\ qf = NoParse
    /\ ExportAtRest
    /\ HandlersAtRest

NextDto == \E fresh \in BOOLEAN : CreateDtosCall(fresh)

\* Calls of createDtos for one entity.
SpecDto == InitDto /\ [][NextDto]_vars

----------------------------------------------------------------------------
(* Properties of the export.                                               *)

\* The filtered result set of export request e, as plain objects, in the
\* data layer's order.
ResultSet(e) ==
    LET all == SelectWhere(db, filter[e])
    IN  [i \in 1..Len(all) |-> instanceToPlain(all[i])]

\* C1: when the generator of an export whose client did not disconnect has
\* returned, the items it yielded are exactly the filtered result set, in
\* query order, each once.
C1_ExportComplete ==
    \A e \in Exports : (pc[e] = "done" /\ ~closed[e]) => out[e] = ResultSet(e)

\* An export without disconnect has ended after two full batches and an
\* empty third one (an exact multiple of the batch size).
C1_Witness ==
    \E e \in Exports :
        /\ pc[e] = "done" /\ ~closed[e]
        /\ Len(out[e]) = 2 * batchSize
        /\ returned[e] = <<batchSize, batchSize, 0>>

\* C2: once the 'close' event of an export request has fired, no step
\* adds a service.query call of that request.
C2_NoFetchAfterClose ==
    [][\A e \in Exports : closed[e] => fetches'[e] = fetches[e]]_vars

\* A disconnect in mid-stream: the generator returned at the loop head with
\* rows of the result set still unfetched.
C2_Witness ==
    \E e \in Exports :
        /\ closed[e] /\ pc[e] = "done"
        /\ Len(fetches[e]) = 1
        /\ returned[e] = <<batchSize>>
        /\ Len(out[e]) < Len(ResultSet(e))

\* Every query but the last one issued returned a full batch.
OnlyLastBatchShort(e) ==
    \A k \in 1..Len(fetches[e]) :
        k > 1 => (Len(returned[e]) >= k - 1 /\ returned[e][k - 1] = batchSize)

\* C3: no query is issued after a batch shorter than batchSize (an empty one
\* included), and the generator of an export whose client stays connected
\* eventually returns.
C3_StopsOnShortBatch ==
    /\ [](\A e \in Exports : OnlyLastBatchShort(e))
    /\ \A e \in Exports : (pc[e] # "idle") ~> (pc[e] = "done" \/ closed[e])

\* An export ended by a short, non-empty second batch.
C3_Witness ==
    \E e \in Exports :
        /\ pc[e] = "done" /\ ~closed[e]
        /\ Len(returned[e]) = 2
        /\ returned[e][1] = batchSize
        /\ returned[e][2] > 0 /\ returned[e][2] < batchSize

\* C4: the k-th query (k from 0) asks for batchSize rows at offset
\* k * batchSize; a query is in flight only when every item of the earlier
\* batches has been pulled; the export never holds more than batchSize rows.
C4_ProduceOnPull ==
    \A e \in Exports :
        /\ \A k \in 1..Len(fetches[e]) :
               fetches[e][k] = [offset |-> (k - 1) * batchSize, limit |-> batchSize]
        /\ pc[e] \in {"fetching", "yielded"} => Len(fetches[e]) = page[e] + 1
        /\ pc[e] = "fetching" => Len(out[e]) = page[e] * batchSize
        /\ pc[e] = "yielded" => Len(out[e]) = page[e] * batchSize + idx[e]
        /\ Len(items[e]) <= batchSize

\* The second batch is being fetched after the whole first batch was pulled.
C4_Witness ==
    \E e \in Exports :
        pc[e] = "fetching" /\ page[e] = 1 /\ Len(out[e]) = batchSize

\* The locals of export request e.
ExportLocals(e) ==
    <<pc[e], filter[e], page[e], aborted[e], items[e], idx[e], out[e], fetches[e]>>

\* C5: no step changes the locals of two export requests; the disconnect of
\* one client leaves every other export's flag alone; an export that is not
\* done can take its next step whatever the state of the others; an export
\* whose own client stayed connected ends with every row of its result set.
C5_ExportsIndependent ==
    /\ [][\A e \in Exports : \A f \in Exports \ {e} :
            ExportLocals(e)' # ExportLocals(e) => ExportLocals(f)' = ExportLocals(f)]_vars
    /\ [](\A e \in Exports :
            /\ aborted[e] => closed[e]
            /\ pc[e] \in {"start", "yielded"} => ENABLED Pull(e)
            /\ pc[e] = "fetching" => ENABLED FetchEnd(e)
            /\ (pc[e] = "done" /\ ~closed[e]) => Len(out[e]) = Count(filter[e]))

\* One client disconnected in mid-stream and its export stopped early; the
\* other export, started meanwhile, ran to the end over two batches.
C5_Witness ==
    \E e \in Exports : \E f \in Exports \ {e} :
        /\ closed[e] /\ pc[e] = "done" /\ Len(out[e]) < Count(filter[e])
        /\ ~closed[f] /\ pc[f] = "done" /\ Len(fetches[f]) >= 2

----------------------------------------------------------------------------
(* Properties of the :id handlers.                                         *)

\* The :id text cannot be parsed to the primary-key type: not a number for
\* a numeric key, not an ObjectId text for an ObjectId key.
Unparsable(text) ==
    \/ options.pkType = "Number" /\ JsNumber(text) = NaN
    \/ options.pkType = "ObjectId" /\ JsObjectId(text) = Thrown

\* The entity the :id text names exists in repository d.
EntityExists(d, text) ==
    LET k == IF options.pkType = "ObjectId" THEN JsObjectId(text)
             ELSE IF options.pkType = "Number" THEN JsNumber(text)
             ELSE JsString(text)
    IN  k.kind = "key" /\ \E i \in DOMAIN d : d[i].id = k.n

\* C7: a delete, update or replace request whose id names no stored entity
\* ends not-found, without a service.delete / service.update call and with
\* the repository as it was.
C7_MissingIdIsNotFound ==
    (h.pc = "done" /\ h.op \in {"delete", "update", "replace"} /\ ~EntityExists(h.db0, h.raw))
        => (h.outcome = "notFound" /\ svcCalls = <<>> /\ db = h.db0)

\* The same for the ids that parse: the part of C7 the handlers keep.
C7_ParsableMissingIdIsNotFound ==
    (h.pc = "done" /\ h.op \in {"delete", "update", "replace"}
        /\ ~Unparsable(h.raw) /\ ~EntityExists(h.db0, h.raw))
        => (h.outcome = "notFound" /\ svcCalls = <<>> /\ db = h.db0)

\* C10: a read, update, replace or delete request whose id cannot be parsed
\* ends bad-request.
C10_UnparsableIsBadRequest ==
    (h.pc = "done" /\ h.op \in Ops /\ Unparsable(h.raw)) => h.outcome = "badRequest"

----------------------------------------------------------------------------
(* Properties of the list handler.                                         *)

\* C6: a paginated response to page >= 0 (or none: 0) and limit >= 1 (or
\* none: 100) has total = the number of matching entities, totalPages the
\* least number of pages of that limit holding them, at most limit rows,
\* and as rows those at offsets page*limit .. page*limit + limit - 1 of the
\* filtered, ordered set.
C6_Pagination ==
    (resp.kind = "page" /\ resp.limitArg # <<0>>) =>
        LET L   == IF resp.limitArg = <<>> THEN 100 ELSE resp.limitArg[1]
            P   == IF resp.pageArg = <<>> THEN 0 ELSE resp.pageArg[1]
            all == OrderBy(SelectWhere(db, options.filter.val), options.sort)
            n   == IF Len(all) <= P * L THEN 0
                   ELSE IF Len(all) < P * L + L THEN Len(all) - P * L ELSE L
        IN  /\ resp.total = Cardinality({i \in DOMAIN db : Matches(db[i], options.filter.val)})
            /\ resp.totalPages * L >= resp.total
            /\ (resp.totalPages - 1) * L < resp.total
            /\ Len(resp.data) <= L
            /\ resp.data = [i \in 1..n |-> all[P * L + i]]
            /\ resp.page = P /\ resp.limit = L

\* The last, short page of three matching entities read two at a time.
C6_Witness ==
    /\ resp.kind = "page" /\ resp.pageArg = <<1>> /\ resp.limitArg = <<2>>
    /\ resp.total = 3 /\ resp.totalPages = 2 /\ Len(resp.data) = 1

----------------------------------------------------------------------------
(* Properties of the entity-fetch interceptor.                             *)

\* C8: a request with an id in its route parameters that cannot be parsed to
\* the primary-key type ends at once with bad-request: no repo.findOne call,
\* nothing attached, no next.handle().
C8_InterceptUnparsable ==
    (icp.pc # "idle" /\ icp.raw # "" /\ Unparsable(icp.raw)) =>
        /\ icp.pc = "done" /\ icp.outcome = "badRequest"
        /\ icp.fetched = 0 /\ icp.attached = Null /\ ~icp.handled

\* A numeric key and an id that is no number.
C8_Witness ==
    /\ icp.pc = "done" /\ icp.raw = "abc" /\ options.pkType = "Number"
    /\ icp.outcome = "badRequest"

\* The entities that have the key the text names and satisfy the caller's
\* scoping filter.
InScope(text) ==
    {i \in DOMAIN db : /\ EntityExists(<<db[i]>>, text)
                       /\ Matches(db[i], options.filter.val)}

\* C9: with an id that parses, next.handle() is called only with an
\* attached entity that has the key and satisfies the scoping filter; when
\* there is none the request ends not-found with nothing attached and no
\* next.handle().
C9_InterceptScoped ==
    (icp.pc = "done" /\ icp.raw # "" /\ ~Unparsable(icp.raw)) =>
        IF InScope(icp.raw) = {}
        THEN icp.outcome = "notFound" /\ icp.attached = Null /\ ~icp.handled
        ELSE /\ icp.outcome = "handled" /\ icp.handled
             /\ \E i \in InScope(icp.raw) : icp.attached = db[i]

\* The same for a scoping filter that does not constrain the primary key.
C9_ScopedByOtherFields ==
    "id" \notin DOMAIN options.filter.val => C9_InterceptScoped

----------------------------------------------------------------------------
(* Properties of the service calls.                                        *)

\* The relation properties validateRelatedEntity is about: many-to-one or
\* one-to-one to the related type.
RelationsToRelated ==
    {meta.relations[p].name : p \in {q \in 1..Len(meta.relations) :
        /\ meta.relations[q].type = RelatedName
        /\ meta.relations[q].kind \in {"m:1", "1:1"}}}

\* The item references a related entity that does not exist.
DanglingReference(item) ==
    \E name \in RelationsToRelated : item[name] # Undefined /\ item[name] \notin related

IsCreateCall == svc.fn \in {"create", "createMany"}

\* C11: a create or createMany call one of whose items references, through
\* a many-to-one or one-to-one relation to the related type, a related
\* entity that does not exist, stores nothing and emits nothing, and ends
\* with the not-found exception.
C11_DanglingReferenceIsNotFound ==
    (IsCreateCall /\ \E i \in DOMAIN svc.data0 : DanglingReference(svc.data0[i]))
        => /\ db = svc.db0
           /\ events = <<>>
           /\ svc.pc = "done" => svc.outcome = "notFound"

\* The same for references other than 0, the key validateRelatedEntity
\* takes for no reference.
C11_NonZeroDanglingReferenceIsNotFound ==
    (IsCreateCall /\ \E i \in DOMAIN svc.data0 : \E name \in RelationsToRelated :
            svc.data0[i][name] \notin related \cup {Undefined, 0})
        => /\ db = svc.db0
           /\ events = <<>>
           /\ svc.pc = "done" => svc.outcome = "notFound"

\* The entity create builds from an item, as stored with id n.
StoredAs(item, n) == [id |-> n, parent |-> item.parent, link |-> item.link, val |-> 0]

\* The events of a successful call: one per entity, in order, when an
\* emitter is configured.
ExpectedEvents ==
    IF ~options.emitter THEN <<>>
    ELSE [i \in 1..Len(svc.result) |->
            [name |-> IF svc.fn = "update" THEN "updated" ELSE "created",
             entity |-> svc.result[i]]]

\* C14: while the flush of a create, createMany or update call has not
\* resolved, and when it was rejected, nothing is emitted; after it the
\* events are one per affected entity, in input order, each with the stored
\* entity, or none without an emitter; the result is the stored entities
\* whether or not there is an emitter; and only the step in which the flush
\* resolves emits.
C14_EventsAfterFlush ==
    /\ [](svc.outcome # "ok" => events = <<>>)
    /\ []((svc.outcome = "ok" /\ IsCreateCall) =>
            /\ svc.result = [i \in 1..Len(svc.data0) |->
                                StoredAs(svc.data0[i], MaxId(svc.db0) + i)]
            /\ db = svc.db0 \o svc.result
            /\ events = ExpectedEvents)
    /\ []((svc.outcome = "ok" /\ svc.fn = "update") =>
            /\ Len(svc.result) = 1
            /\ \E j \in DOMAIN db :
                /\ db[j] = svc.result[1]
                /\ svc.db0[j].id = svc.where.id
                /\ svc.result[1] = Assign(svc.db0[j], svc.data0[1])
            /\ events = ExpectedEvents)
    /\ [][events' # events => (svc.pc = "flush" /\ svc'.outcome = "ok")]_vars

C14_Witness ==
    /\ svc.outcome = "ok"
    /\ svc.fn = "createMany"
    /\ Len(svc.result) = 2
    /\ Len(events) = 2
    /\ events[1].entity = svc.result[1]
    /\ events[1].entity # events[2].entity

----------------------------------------------------------------------------
(* Properties of the Crud decorator.                                       *)

\* C12: for a class without routing path metadata the decorator throws when
\* it is applied: the class then has no CRUD options metadata, its
\* prototype chain is the one it had, it has no generated handler and it
\* serves no request.
C12_FailsFastWithoutPath ==
    (host.path = NoPath /\ host.pc \notin {"idle", "crud"})
        => /\ host.pc = "thrown"
           /\ ~host.crudMeta
           /\ host.proto = "Object"
           /\ host.handlers = {}
           /\ host.requests = 0

C12_Witness == host.path = NoPath /\ host.pc = "thrown"

\* The handlers of a class decorated with the given operations.
HandlersOf(operations) == RemoveOperations(OperationNames, operations)

\* C13: in a decorated class the handler of an operation whose entry is
\* false is absent, the handler of an operation whose entry is an options
\* object is present, and giving another entry to one operation leaves the
\* presence of every other operation's handler as it is.
C13_OperationsToggle ==
    host.pc = "injected" =>
        \A op \in OperationNames :
            /\ host.operations[op] = "false" => op \notin host.handlers
            /\ host.operations[op] = "object" => op \in host.handlers
            /\ \A other \in OperationNames \ {op} : \A entry \in Entries :
                (op \in HandlersOf([host.operations EXCEPT ![other] = entry]))
                    <=> (op \in host.handlers)

\* What holds of the toggles: false removes the handler, no entry acts on
\* another operation, and an options object keeps the handlers of create,
\* update, read and query.
C13_DisabledAbsentAndIndependent ==
    host.pc = "injected" =>
        \A op \in OperationNames :
            /\ host.operations[op] = "false" => op \notin host.handlers
            /\ (host.operations[op] = "object" /\ op \in {"create", "update", "read", "query"})
                    => op \in host.handlers
            /\ \A other \in OperationNames \ {op} : \A entry \in Entries :
                (op \in HandlersOf([host.operations EXCEPT ![other] = entry]))
                    <=> (op \in host.handlers)

\* C20: once the decorator has returned, no step runs the DTO derivation or
\* builds the exposed-name maps.
C20_ComputedOnceAtRegistration ==
    [][host.pc = "injected" =>
        /\ host'.dtoDerivations = host.dtoDerivations
        /\ host'.nameMaps = host.nameMaps]_vars

\* The DTO half of it: the derivation runs once, in Crud(options).
C20_DtosDerivedOnce ==
    /\ host.pc = "idle" => host.dtoDerivations = 0
    /\ host.pc # "idle" => host.dtoDerivations = 1

----------------------------------------------------------------------------
(* Properties of the query-filter translator.                              *)

\* The configuration enables property f as a filter (entry true) and the
\* entity has it.
Enabled ==
    /\ meta.decorated
    /\ "f" \in DOMAIN meta.properties
    /\ qf.filterConfig[1].config = "true"
TypeOfF == meta.properties["f"].type
NameOfF == ExposedName(getExposedNameMap, "f")
Supplied(suffix) == ParamName(NameOfF, suffix) \in DOMAIN qf.query
TextOf(suffix) == qf.query[ParamName(NameOfF, suffix)]
Bound(suffix) == IF IsNumber(TypeOfF) THEN JsNumber(TextOf(suffix)) ELSE JsDate(TextOf(suffix))

\* C15: for an enabled numeric or date property, a query with both .min and
\* .max gives the property one predicate with $gte = min and $lte = max and
\* nothing else; with only one of them the predicate holds only that bound.
C15_MinMaxRange ==
    (qf.pc = "parsed" /\ Enabled /\ (IsNumber(TypeOfF) \/ IsDate(TypeOfF))) =>
        /\ (Supplied("min") /\ Supplied("max")) =>
            /\ "f" \in DOMAIN qf.where
            /\ qf.where["f"] = ObjectValue(("$gte" :> Bound("min")) @@ ("$lte" :> Bound("max")))
        /\ (Supplied("min") /\ ~Supplied("max")) =>
            /\ "f" \in DOMAIN qf.where
            /\ qf.where["f"] = ObjectValue(("$gte" :> Bound("min")))
        /\ (~Supplied("min") /\ Supplied("max")) =>
            /\ "f" \in DOMAIN qf.where
            /\ qf.where["f"] = ObjectValue(("$lte" :> Bound("max")))

C15_Witness ==
    /\ qf.pc = "parsed" /\ Enabled /\ IsDate(TypeOfF) /\ NameOfF = "x"
    /\ Supplied("min") /\ Supplied("max") /\ Supplied("")
    /\ TextOf("min") = "1" /\ TextOf("max") = "true"
    /\ qf.where["f"].props["$gte"].valid /\ ~qf.where["f"].props["$lte"].valid

\* The query without one parameter.
QueryWithout(name) == [n \in DOMAIN qf.query \ {name} |-> qf.query[n]]

\* C16: for an enabled string property, .contains = v gives the property,
\* under its internal name, the predicate {$like: '%v%'}; for a property of
\* another type the .contains parameter changes nothing.
C16_ContainsIsLike ==
    (qf.pc = "parsed" /\ Enabled /\ Supplied("contains")) =>
        IF IsString(TypeOfF)
        THEN /\ "f" \in DOMAIN qf.where
             /\ qf.where["f"] = ObjectValue(("$like" :> LikePattern(TextOf("contains"))))
        ELSE qf.where = parseQueryFilters(QueryWithout(ParamName(NameOfF, "contains")),
                                          qf.filterConfig)

\* The same for queries that do not also hold the exact-match parameter of
\* the property.
C16_ContainsWithoutExactIsLike ==
    ~Supplied("") => C16_ContainsIsLike

\* The parameter names parseQueryFilters honours: those that, alone in a
\* query, change its result for some text.
Honoured ==
    {n \in QueryNames : \E text \in QueryTexts :
        parseQueryFilters((n :> text), qf.filterConfig) # parseQueryFilters(<<>>, qf.filterConfig)}

\* C17: the names of the parameters getSwaggerQueryParams emits are the
\* names parseQueryFilters honours.
C17_DocumentedIsHonoured ==
    qf.pc = "documented" => {qf.params[i].name : i \in DOMAIN qf.params} = Honoured

C17_Witness ==
    /\ qf.pc = "documented"
    /\ Len(qf.params) = 4
    /\ ParamName("x", "max") \in Honoured
    /\ ParamName("search", "") \in Honoured

----------------------------------------------------------------------------
(* Properties of the DTO factory.                                          *)

\* The schema's properties, and the first call that derived a create DTO.
SchemaProperties == {meta.properties[n] : n \in DOMAIN meta.properties}
Derived(call) == call.before.createDto = 0
Contains(call, prop) == prop.name \in DOMAIN call.createMap

AutoGenerated(prop) == prop.autoincrement \/ prop.onCreate \/ prop.onUpdate \/ prop.version
MarkedReadOnly(prop) == prop.readOnly \/ prop.apiReadOnly
OnPrototype(prop) == prop.descriptor # "none"

\* The exposure rules: with the strategy excludeAll (also taken when the
\* class names none) a property needs an Expose that is not toPlainOnly,
\* with exposeAll it must have no Exclude that is not toPlainOnly.
Admitted(prop) ==
    IF meta.strategy \in {"none", "excludeAll"}
    THEN \E i \in DOMAIN meta.exposed :
            meta.exposed[i].propertyName = prop.name /\ ~meta.exposed[i].toPlainOnly
    ELSE ~\E i \in DOMAIN meta.excluded :
            meta.excluded[i].propertyName = prop.name /\ ~meta.excluded[i].toPlainOnly

\* C18 as stated: a derived create DTO has no property that is a primary
\* key, auto-generated, non-persisted or marked read-only, and has every
\* other property of the schema that the exposure rules admit.
C18_CreateDtoFields ==
    \A k \in DOMAIN dto.calls : Derived(dto.calls[k]) =>
        \A prop \in SchemaProperties :
            LET barred == prop.primary \/ AutoGenerated(prop) \/ ~prop.persist
                            \/ MarkedReadOnly(prop)
            IN  /\ barred => ~Contains(dto.calls[k], prop)
                /\ (~barred /\ Admitted(prop)) => Contains(dto.calls[k], prop)

\* C18, amended: the properties that are accessors or non-writable
\* properties of the class prototype are left out as well; the DTO has every
\* other admitted property.
C18_CreateDtoFieldsButPrototype ==
    \A k \in DOMAIN dto.calls : Derived(dto.calls[k]) =>
        \A prop \in SchemaProperties :
            LET barred == prop.primary \/ AutoGenerated(prop) \/ ~prop.persist
                            \/ MarkedReadOnly(prop) \/ OnPrototype(prop)
            IN  /\ barred => ~Contains(dto.calls[k], prop)
                /\ (~barred /\ Admitted(prop)) => Contains(dto.calls[k], prop)

C18_Witness ==
    /\ Len(dto.calls) = 1
    /\ Derived(dto.calls[1])
    /\ meta.decorated
    /\ meta.strategy = "exposeAll"
    /\ meta.properties["a"].readOnly
    /\ ~Contains(dto.calls[1], meta.properties["a"])
    /\ Contains(dto.calls[1], meta.properties["b"])

\* C19: all createDtos calls of a run, whose entity and configuration are
\* the same, end with the same decorators on every property of the create
\* DTO and of the update DTO; and a call on options that hold both DTOs
\* changes neither the options nor any class or metadata.
C19_DerivationStable ==
    /\ [](\A i \in DOMAIN dto.calls : \A j \in DOMAIN dto.calls :
            /\ dto.calls[i].createMap = dto.calls[j].createMap
            /\ dto.calls[i].updateMap = dto.calls[j].updateMap)
    /\ [][(Len(dto'.calls) > Len(dto.calls)
            /\ dto'.calls[Len(dto'.calls)].before.createDto # 0
            /\ dto'.calls[Len(dto'.calls)].before.updateDto # 0)
          => /\ dto'.calls[Len(dto'.calls)].after = dto'.calls[Len(dto'.calls)].before
             /\ dto'.storage = dto.storage
             /\ dto'.classes = dto.classes
             /\ dto'.parents = dto.parents]_vars

C19_Witness ==
    /\ Len(dto.calls) = 2
    /\ dto.calls[1].fresh /\ dto.calls[2].fresh
    /\ Derived(dto.calls[1]) /\ Derived(dto.calls[2])
    /\ dto.calls[1].after.createDto # dto.calls[2].after.createDto
    /\ "b" \in DOMAIN dto.calls[2].createMap
    /\ Len(dto.calls[2].updateMap["b"]) > Len(dto.calls[2].createMap["b"])

\* The validation rules of a field in a class's decorators, and whether the
\* class documents the field.
RulesOf(map, name) ==
    {map[name][i] : i \in {j \in DOMAIN map[name] : map[name][j].rule \in ValidationRules}}
DocumentedIn(map, name) ==
    \E i \in DOMAIN map[name] : map[name][i].rule \in {"ApiProperty", "ApiPropertyOptional"}
OptionalIn(map, name) ==
    /\ \E i \in DOMAIN map[name] : map[name][i].rule = "IsOptional"
    /\ \A i \in DOMAIN map[name] : map[name][i].rule # "ApiProperty"
DerivedUpdate(call) == call.before.updateDto = 0

\* C21: an update DTO that createDtos derived has exactly the fields of the
\* create DTO of the same options (derived or written by the application);
\* each field is optional in it, for the validation and, when the create DTO
\* documents the field, in the documentation; and each field has every
\* validation rule it has in the create DTO.
C21_UpdateDtoFromCreateDto ==
    \A k \in DOMAIN dto.calls : DerivedUpdate(dto.calls[k]) =>
        LET c == dto.calls[k].createMap
            u == dto.calls[k].updateMap
        IN  /\ DOMAIN u = DOMAIN c
            /\ \A name \in DOMAIN c :
                /\ OptionalIn(u, name)
                /\ DocumentedIn(c, name) => DocumentedIn(u, name)
                /\ RulesOf(c, name) \subseteq RulesOf(u, name)

C21_Witness ==
    /\ Len(dto.calls) = 1
    /\ DerivedUpdate(dto.calls[1]) /\ Derived(dto.calls[1])
    /\ "b" \in DOMAIN dto.calls[1].createMap
    /\ [rule |-> "IsNotEmpty", each |-> TRUE] \in RulesOf(dto.calls[1].createMap, "b")
    /\ [rule |-> "IsNotEmpty", each |-> TRUE] \in RulesOf(dto.calls[1].updateMap, "b")
    /\ ~OptionalIn(dto.calls[1].createMap, "b")
    /\ OptionalIn(dto.calls[1].updateMap, "b")

C21_WitnessUserCreateDto ==
    /\ Len(dto.calls) = 1
    /\ DerivedUpdate(dto.calls[1]) /\ ~Derived(dto.calls[1])
    /\ DOMAIN dto.calls[1].updateMap = {"a"}

----------------------------------------------------------------------------
(* Properties of the JSON body of the export.                              *)

\* The chunks of a well-formed JSON array of the texts of a sequence of
\* items: '[', the items with one ',' between two of them, ']'.
RECURSIVE Joined(_)
Joined(its) ==
    IF its = <<>> THEN <<>>
    ELSE IF Len(its) = 1 THEN <<JsonStringify(its[1])>>
    ELSE <<JsonStringify(its[1]), Text(",")>> \o Joined(Tail(its))
ArrayOf(its) == <<Text("[")>> \o Joined(its) \o <<Text("]")>>
IsPrefix(a, b) == Len(a) <= Len(b) /\ a = SubSeq(b, 1, Len(a))

\* C22: the body of a request that does not accept text/csv is at every
\* moment the beginning of the well-formed array of the items taken from
\* generateData so far, and from the moment ']' is yielded it is the whole
\* array of all the items generateData yielded, whether or not the client
\* has disconnected and also without any item.
C22_JsonArrayWellFormed ==
    ~json.isCsv =>
        /\ json.pc \notin {"close", "done"} =>
                /\ IsPrefix(json.body, ArrayOf(SubSeq(out[1], 1, json.received)))
                /\ \A i \in DOMAIN json.body : json.body[i] # Text("]")
        /\ json.pc \in {"close", "done"} => json.body = ArrayOf(out[1])

C22_Witness ==
    /\ json.pc = "done"
    /\ closed[1]
    /\ Len(out[1]) = batchSize
    /\ Len(SelectWhere(db, filter[1])) > batchSize
    /\ json.body = ArrayOf(out[1])
    /\ Len(json.body) = 2 * batchSize + 1

C22_WitnessEmpty ==
    /\ json.pc = "done"
    /\ json.body = <<Text("["), Text("]")>>
    /\ ~closed[1]

----------------------------------------------------------------------------
(* Properties of the scoping filter in the :id handlers.                   *)

\* The filter the configured function stands for, whether it returns it or
\* a promise of it.
ScopingFilter == AwaitedFilter(options.filter)

\* Entity e of the repository the request began with is as it was, and is
\* not what the request returned.
Untouched(e) ==
    /\ \E j \in DOMAIN db : db[j] = e
    /\ ~(h.outcome = "ok" /\ h.result # Null /\ h.result.id = e.id)

\* C23, for read, update, replace and delete: when a request is over, every
\* entity that does not satisfy the scoping filter is still stored as it
\* was and was not returned.
C23_HandlersScoped ==
    (h.pc = "done" /\ h.op \in Ops) =>
        \A i \in DOMAIN h.db0 : ~Matches(h.db0[i], ScopingFilter) => Untouched(h.db0[i])

\* The same for a filter that is returned synchronously and does not
\* constrain the primary key.
C23_SyncFilterOnOtherFieldsScoped ==
    (options.filter.kind # "promise" /\ "id" \notin DOMAIN ScopingFilter)
        => C23_HandlersScoped

\* The export, for comparison: every item yielded satisfies the scoping
\* filter.
C23_ExportScoped ==
    \A e \in Exports : \A i \in DOMAIN out[e] :
        Matches(out[e][i], AwaitedFilter(options.filter))

----------------------------------------------------------------------------
(* Properties of the :id handlers while other requests delete.             *)

\* Another request deleted the entity the request of the run is about after
\* the handler's findOne found it and before the service's own findOne.
DeletedAfterCheck ==
    \E i \in DOMAIN writes :
        /\ writes[i].req = nreq
        /\ writes[i].during = "svcFindOne"
        /\ writes[i].id = h.where.id

\* C24: an update, replace or delete request whose entity another request
\* deleted between the handler's existence check and the service's lookup
\* ends not-found.
C24_DeletedMeanwhileIsNotFound ==
    (h.pc = "done" /\ h.op \in {"update", "replace", "delete"} /\ DeletedAfterCheck)
        => h.outcome = "notFound"

\* The deleted events of the run.
DeletedEvents == {i \in DOMAIN events : events[i].name = "deleted"}

\* C25: a deleted event carries an entity that was stored when
\* service.delete read it, and once the call is over that entity is stored
\* no longer: there is no deleted event of a call that found no entity or
\* whose nativeDelete failed.
C25_DeletedEventOnlyForRemoved ==
    \A i \in DeletedEvents :
        /\ events[i].entity # Null
        /\ (h.pc = "done" /\ h.op = "delete" /\ i = Len(events))
                => (h.outcome = "ok" /\ \A j \in DOMAIN db : db[j].id # events[i].entity.id)

\* The same when the entity is there and the data layer deletes it.
C25_DeletedEventWhenDeleted ==
    (h.pc = "done" /\ h.op = "delete" /\ h.outcome = "ok" /\ h.result # Null
        /\ options.emitter)
        => /\ events # <<>>
           /\ events[Len(events)] = [name |-> "deleted", entity |-> h.result]
           /\ \A j \in DOMAIN db : db[j].id # h.result.id

----------------------------------------------------------------------------
(* Properties of the export while other requests write.                    *)

\* The entities that were stored when the export began, are stored still
\* and satisfy the filter the export queries with: those no other request
\* created or deleted meanwhile.
Created == {writes[i].id : i \in {j \in DOMAIN writes : writes[j].fn = "create"}}
Lasting ==
    {db[i] : i \in {j \in DOMAIN db : db[j].id \notin Created /\ Matches(db[j], filter[1])}}

Times(e, entity) == Cardinality({i \in DOMAIN out[e] : out[e][i] = instanceToPlain(entity)})

\* C26: when an export whose client stayed connected is over, every entity
\* that matched the filter from its beginning to its end has been yielded
\* exactly once, whatever other requests created or deleted meanwhile.
C26_LastingRecordsOnce ==
    (pc[1] = "done" /\ ~closed[1]) => \A entity \in Lasting : Times(1, entity) = 1

\* The same while no other request writes.
C26_OnceWithoutWrites ==
    writes = <<>> => C26_LastingRecordsOnce

\* The two halves of it: no lasting entity is left out, none is yielded
\* twice.
C26_NoneSkipped ==
    (pc[1] = "done" /\ ~closed[1]) => \A entity \in Lasting : Times(1, entity) >= 1
C26_NoneDuplicated ==
    (pc[1] = "done" /\ ~closed[1]) => \A entity \in Lasting : Times(1, entity) <= 1

----------------------------------------------------------------------------
(* Properties of combined and of disabled query parameters.                *)

\* The value the exact-match parameter of `f` stands for.
ExactValue ==
    IF IsNumber(TypeOfF) THEN JsNumber(TextOf(""))
    ELSE IF IsDate(TypeOfF) THEN JsDate(TextOf(""))
    ELSE StringValue(TextOf(""))

\* The operators of a predicate on one property.
Operators == {"$eq", "$like", "$gte", "$lte"}

\* C27: for an enabled property, a query with the exact-match parameter and
\* with .contains (string) or .min / .max (number, date) gives the property
\* a predicate that holds the exact value, every other supplied constraint,
\* and no key that is not an operator.
C27_EveryConstraintEnforced ==
    (/\ qf.pc = "parsed" /\ Enabled /\ Supplied("")
     /\ \/ IsString(TypeOfF) /\ Supplied("contains")
        \/ (IsNumber(TypeOfF) \/ IsDate(TypeOfF)) /\ (Supplied("min") \/ Supplied("max")))
    => /\ "f" \in DOMAIN qf.where
       /\ qf.where["f"].kind = "object"
       /\ LET props == qf.where["f"].props
          IN  /\ DOMAIN props \subseteq Operators
              /\ "$eq" \in DOMAIN props /\ props["$eq"] = ExactValue
              /\ (IsString(TypeOfF) /\ Supplied("contains")) =>
                    ("$like" \in DOMAIN props
                        /\ props["$like"] = LikePattern(TextOf("contains")))
              /\ (~IsString(TypeOfF) /\ Supplied("min")) =>
                    ("$gte" \in DOMAIN props /\ props["$gte"] = Bound("min"))
              /\ (~IsString(TypeOfF) /\ Supplied("max")) =>
                    ("$lte" \in DOMAIN props /\ props["$lte"] = Bound("max"))

\* The exact-match parameter alone gives the property its value.
C27_ExactAloneEnforced ==
    (/\ qf.pc = "parsed" /\ Enabled /\ Supplied("")
     /\ ~Supplied("contains") /\ ~Supplied("min") /\ ~Supplied("max")
     /\ ~IsBoolean(TypeOfF))
    => ("f" \in DOMAIN qf.where /\ qf.where["f"] = ExactValue)

\* The entries of the configuration that are on, the parameter names that
\* belong to them, and the query cut down to those.
TruthyEntries == {i \in DOMAIN qf.filterConfig : qf.filterConfig[i].config # "false"}
ConfiguredNames ==
    {ParamName(ExposedName(getExposedNameMap, qf.filterConfig[i].key), s) :
        i \in TruthyEntries, s \in Suffixes}
Configured(query) == [n \in DOMAIN query \cap ConfiguredNames |-> query[n]]

\* The custom predicate functions whose parameter the query holds.
CustomCalled ==
    {i \in TruthyEntries :
        /\ qf.filterConfig[i].config = "function"
        /\ ParamName(ExposedName(getExposedNameMap, qf.filterConfig[i].key), "")
                \in DOMAIN qf.query}

\* C28: the filter has a key only for a property whose entry is `true`, or
\* a key of a custom predicate whose parameter the query holds; it is the
\* filter of the query cut down to the parameters of the entries that are
\* on; and it is empty for a class without schema metadata.
C28_OnlyConfiguredFields ==
    qf.pc = "parsed" =>
        /\ \A key \in DOMAIN qf.where :
                \/ \E i \in TruthyEntries :
                        qf.filterConfig[i].key = key /\ qf.filterConfig[i].config = "true"
                \/ CustomCalled # {} /\ \E text \in QueryTexts : key \in DOMAIN CustomFilter(text)
        /\ qf.where = parseQueryFilters(Configured(qf.query), qf.filterConfig)
        /\ ~meta.decorated => qf.where = <<>>

\* A query with the three parameters of a disabled string property and the
\* parameter of the custom entry.
C28_Witness ==
    /\ qf.pc = "parsed"
    /\ meta.decorated /\ "f" \in DOMAIN meta.properties /\ IsString(TypeOfF)
    /\ qf.filterConfig[1].config = "false" /\ Len(qf.filterConfig) = 2
    /\ Supplied("") /\ Supplied("contains")
    /\ ParamName("search", "") \in DOMAIN qf.query
    /\ DOMAIN qf.where = {"title"}

----------------------------------------------------------------------------
(* Properties of create and import.                                        *)

\* What item i of the request must hold under key k: the defaultValues
\* value, else the persist value, else what the client sent.
Expected(i, k) ==
    IF k \in DOMAIN cr.defaultValues.val THEN cr.defaultValues.val[k]
    ELSE IF k \in DOMAIN cr.persist.val THEN cr.persist.val[k]
    ELSE cr.body0[i][k]

\* C29: the data the service is called with has one item for each item of
\* the client's body, each holding under every key the expected value; and
\* so do the entities the service stores.
C29_PersistThenDefaultValues ==
    svc.pc # "idle" =>
        /\ Len(svc.data0) = Len(cr.body0)
        /\ \A i \in DOMAIN svc.data0 : \A k \in {"parent", "link"} :
                svc.data0[i][k] = Expected(i, k)
        /\ (svc.pc = "done" /\ svc.outcome = "ok") =>
                /\ Len(svc.result) = Len(cr.body0)
                /\ \A i \in DOMAIN svc.result : \A k \in {"parent", "link"} :
                        /\ svc.result[i][k] = Expected(i, k)
                        /\ \E j \in DOMAIN db : db[j] = svc.result[i]

\* An import of two items whose `parent` both functions return and whose
\* `link` neither does.
C29_Witness ==
    /\ svc.pc = "done" /\ svc.outcome = "ok" /\ cr.fn = "import"
    /\ Len(cr.body0) = 2
    /\ cr.persist.kind = "promise" /\ cr.persist.val = [parent |-> 1]
    /\ cr.defaultValues.kind = "sync" /\ cr.defaultValues.val = [parent |-> 2]
    /\ cr.body0[1] = [parent |-> Undefined, link |-> 1]
    /\ cr.body0[2] = [parent |-> 2, link |-> Undefined]
    /\ svc.result[1].parent = 2 /\ svc.result[1].link = 1
    /\ svc.result[2].link = Undefined

====
